---- MODULE Spec2Model ----
(***************************************************************************)
(* Verification model of the SteamGamingAnalysis ETL scripts:              *)
(*   src/src/simulate_sessions.py    Mode A synthesizer (config driven)    *)
(*   src/src/etl/pipeline.py         Mode A synthesizer (fixed duration)   *)
(*   src/src/etl/generate_sessions.py Mode B synthesizer, cleaning pass    *)
(*   src/src/utils.py, simple_etl.py numeric cleaner, column normalizer    *)
(*   src/src/etl/pipeline.py         daily loader, persistence sink        *)
(*   src/src/etl/fetch_steam_data.py games table, name lookups             *)
(*   the five scripts                exit status                           *)
(*                                                                         *)
(* Conventions.  Real numbers are scaled integers: hours_played in quarter *)
(* hours, noise in percent, fractional hours and minutes in tenths.  A     *)
(* pseudo random generator is a state in 0..RngMod-1; a draw reads the     *)
(* state, maps it into the distribution's range and advances it.           *)
(***************************************************************************)
EXTENDS Integers, Sequences, FiniteSets, TLC

VARIABLES
    \* ---- Mode A (simulate_sessions.main / pipeline.simulate_sessions) ----
    aVariant,      \* "main" | "pipeline" | "none"
    aCfg,          \* configuration record
    aDf,           \* input daily records
    aRow,          \* index of the row the for loop is at
    aLeft,         \* iterations left of the inner range(num_sessions) loop
    user_counter,
    session_logs,
    aPerRow,       \* history: sessions appended for each row
    aNoise,        \* history: noise (percent) drawn for each row
    aRng,          \* state of Python's random module
    aDraws,        \* number of random draws made
    aSink,         \* what was handed to the database sink (None before)
    pcA,
    aExit,         \* "running" | "ok" | "returned_early" | "ValueError"
    \* ---- Mode B (generate_sessions._simulate_user_sessions and its caller) ----
    bArgs,         \* game_weights, num_users, simulation_days, start_date, target
    bRng,          \* state of numpy's global generator
    bI,            \* loop index i
    bSessions,     \* the sessions list of the running call
    bResult,       \* "running" | "ok" | "empty_df" | "ZeroDivisionError" | "ValueError"
    bDraws,        \* random draws made by the running call
    bCall,         \* 1 for the first execution, 2 for the repeated one
    bFirst,        \* outcome of the first execution (None before it ends)
    bSaved,        \* rows written to the output file (None if no file)
    pcB,
    bExit,         \* process exit status (-1 while running)
    \* ---- Cleaning pass (generate_sessions.clean_sessions) ----
    cIn,           \* the table passed in
    cDf,           \* the table being worked on
    cRemoved,      \* the removed-rows count logged (None if not logged)
    cStatus,       \* "running" | "ok" | "empty" | "ValueError"
    pcC,
    \* ---- Numeric cleaner (utils.clean_numeric_string, simple_etl.clean_numeric) ----
    nValue,        \* the value passed in
    nUtils,        \* what clean_numeric_string returned (None before the call)
    nSimple,       \* what clean_numeric returned (None before the call)
    pcN,
    \* ---- Loaders (pipeline.load_daily_data, simple_etl.main, weight path) ----
    lPath,         \* "daily" | "simple" | "weights"
    lFiles,        \* the files the glob matched, in order
    lIdx,          \* index of the file the for loop is at
    lFrames,       \* number of data frames appended to the list
    lRows,         \* the rows of those frames, concatenated
    lRaw,          \* history: the rows of the accepted files as read
    lTable,        \* the aggregate table produced (None before / if none)
    lWeights,      \* game_weights (None until _calculate_game_weights returns)
    lExit,         \* "running" | "ok" | an exception | "returned_early" | "aborted"
    pcL,
    \* ---- Column normalizer (utils.clean_column_name, simple_etl.clean_column,
    \*      the header clean-up of _load_and_standardize_game_data) ----
    kFn,           \* "utils" | "simple" | "standardize"
    kName,         \* the header passed in
    kOnce,         \* the result of the call (None before it)
    kTwice,        \* the result of the call on that result (None before it)
    pcK,
    \* ---- Persistence sink (pipeline.setup_database, simulate_sessions.main) ----
    dVariant,      \* "pipeline" | "main"
    dDurable,      \* the session_logs table in the database file (None: no table)
    dWorking,      \* the table as the open connection sees it
    dInTxn,        \* the connection has an open transaction
    dRun,          \* number of the run at hand (0 before the first)
    dBatch,        \* sessions_df of the run at hand
    dDone,         \* rows of dBatch that to_sql has inserted
    dTrace,        \* the database calls the run has made so far, in order
    dPrior,        \* history: dDurable when the run began
    dAllOk,        \* history: no run so far has failed
    dExit,         \* how the last run ended: "ok" | "Exception" | "printed"
    pcD,
    \* ---- Entry points (the five scripts, from start to process exit) ----
    eEntry,        \* the script that is run
    eFaults,       \* the fatal conditions the environment holds for this run
    eFatal,        \* history: the fatal conditions the run has met
    eStatus,       \* exit status of the process (-1 while it runs)
    pcE,           \* the stage the run is at
    \* ---- Games table (fetch_steam_data.update_games_table) ----
    gGames,        \* the games table: app_id -> row, None where there is none
    gWork,         \* the table as the connection sees it during a run
    gPrior,        \* history: the table when the run began
    gRun,          \* number of the run, used as current_timestamp_iso
    gBatch,        \* the app ids of games_data, in order
    gIdx,          \* index of the game the for loop is at
    existing_games,          \* app_id -> name read at the start (None: not there)
    games_to_insert,
    app_ids_to_update_timestamp,
    gLooked,       \* history: app_id -> what get_game_name returned this run
    gTrace,        \* history: "lookup" and "sleep" steps of the run, in order
    pcG

varsA == <<aVariant, aCfg, aDf, aRow, aLeft, user_counter, session_logs,
           aPerRow, aNoise, aRng, aDraws, aSink, pcA, aExit>>

varsB == <<bArgs, bRng, bI, bSessions, bResult, bDraws, bCall, bFirst, bSaved,
           pcB, bExit>>

varsC == <<cIn, cDf, cRemoved, cStatus, pcC>>

varsN == <<nValue, nUtils, nSimple, pcN>>

varsL == <<lPath, lFiles, lIdx, lFrames, lRows, lRaw, lTable, lWeights, lExit, pcL>>

varsK == <<kFn, kName, kOnce, kTwice, pcK>>

varsD == <<dVariant, dDurable, dWorking, dInTxn, dRun, dBatch, dDone, dTrace,
           dPrior, dAllOk, dExit, pcD>>

\* The variables of the components added after the loaders.
varsE == <<eEntry, eFaults, eFatal, eStatus, pcE>>

varsG == <<gGames, gWork, gPrior, gRun, gBatch, gIdx, existing_games,
           games_to_insert, app_ids_to_update_timestamp, gLooked, gTrace, pcG>>

varsX == <<varsK, varsD, varsE, varsG>>

vars == <<aVariant, aCfg, aDf, aRow, aLeft, user_counter, session_logs,
          aPerRow, aNoise, aRng, aDraws, aSink, pcA, aExit,
          bArgs, bRng, bI, bSessions, bResult, bDraws, bCall, bFirst, bSaved,
          pcB, bExit,
          cIn, cDf, cRemoved, cStatus, pcC,
          nValue, nUtils, nSimple, pcN,
          lPath, lFiles, lIdx, lFrames, lRows, lRaw, lTable, lWeights, lExit, pcL,
          varsX>>

\* ------------------------------------------------------------------ bounds
RngMod == 8
MaxRows == 2
MaxUsers == 2
MaxDays == 2
MaxTarget == 11
MaxCleanRows == 2
MaxStrLen == 3
MaxFiles == 2
MaxHeaderLen == 3
MaxRuns == 3
MaxBatch == 2
MaxApps == 3
MaxFetchRuns == 2

\* ------------------------------------------------------------ arithmetic
\* A value that may be missing (None, NaN, NaT, pd.NA): <<>> or <<v>>.
None == <<>>
Some(v) == <<v>>
Get(o) == o[1]

Max(a, b) == IF a >= b THEN a ELSE b
Min(a, b) == IF a <= b THEN a ELSE b

\* Python int(x) of the real n/d (d # 0): truncation toward zero.
PyInt(n, d) ==
    LET sn == IF d < 0 THEN -n ELSE n
        sd == IF d < 0 THEN -d ELSE d
    IN  IF sn >= 0 THEN sn \div sd ELSE -((-sn) \div sd)

\* floor of the real n/d (d # 0).
Floor(n, d) ==
    LET sn == IF d < 0 THEN -n ELSE n
        sd == IF d < 0 THEN -d ELSE d
    IN  sn \div sd

\* ------------------------------------------------ pseudo random generator
RngStates == 0 .. (RngMod - 1)
RngNext(s) == (5 * s + 3) % RngMod

\* random.randint(a, b): an integer of a..b, both ends included.
PyRandint(s, a, b) ==
    IF b - a + 1 <= RngMod THEN a + (s % (b - a + 1))
    ELSE a + (s * (b - a)) \div (RngMod - 1)

\* random.uniform(-n, n), in percent.
PyUniformPct(s, n) == (2 * n * s) \div (RngMod - 1) - n

\* random.gauss(mu, sigma), in tenths of an hour: mu + z*sigma for a z in
\* -3.5 .. 3.5, which leaves the 0..23 range on both sides.
PyGaussTenths(s, mu, sigma) == 10 * mu + 5 * sigma * (2 * s - (RngMod - 1))

\* ---------------------------------------------------------------- Mode A
\* A daily record: hours_played is held in quarter hours (hq = 4 * hours).
DailyRows ==
    { [game_name |-> "A", date |-> 3, hq |-> 0],
      [game_name |-> "A", date |-> 3, hq |-> 1],
      [game_name |-> "B", date |-> 4, hq |-> 6],
      [game_name |-> "B", date |-> 4, hq |-> 40] }

RECURSIVE SeqsUpTo(_, _)
SeqsUpTo(S, n) ==
    IF n = 0 THEN {<<>>}
    ELSE LET shorter == SeqsUpTo(S, n - 1)
         IN  shorter \cup { Append(q, x) : q \in {r \in shorter : Len(r) = n - 1}, x \in S }

InputTables == SeqsUpTo(DailyRows, MaxRows)

\* config.yaml as simulate_sessions.py reads it (noise in percent).
MainConfigs ==
    { [avg |-> 30, max_per_day |-> 25, dmin |-> 10, dmax |-> 12, noise |-> 0,
       peak |-> 20, stddev |-> 3],
      [avg |-> 30, max_per_day |-> 2, dmin |-> 10, dmax |-> 12, noise |-> 50,
       peak |-> 20, stddev |-> 3],
      [avg |-> 45, max_per_day |-> 25, dmin |-> 0, dmax |-> 1, noise |-> 50,
       peak |-> 20, stddev |-> 3],
      [avg |-> -30, max_per_day |-> 3, dmin |-> 1, dmax |-> 1, noise |-> 0,
       peak |-> 12, stddev |-> 5] }

\* src.config as pipeline.py imports it: only the average duration is used.
PipelineConfigs ==
    { [avg |-> a, max_per_day |-> 0, dmin |-> 0, dmax |-> 0, noise |-> 0,
       peak |-> 0, stddev |-> 0] : a \in {30, 45, -30} }

\* est_sessions after the noise term, as the pair numerator / denominator:
\* (hq*15 / avg) * (1 + p/100).
EstSessionsNum(hq, p) == 15 * hq * (100 + p)
EstSessionsDen(avg) == 100 * avg

\* simulate_sessions.py: max(1, int(est)) then min(.., MAX_SESSIONS_PER_DAY).
MainNumSessions(hq, cfg, p) ==
    Min(Max(1, PyInt(EstSessionsNum(hq, p), EstSessionsDen(cfg.avg))), cfg.max_per_day)

\* pipeline.py: int(total_minutes / AVG_SESSION_DURATION_MINUTES).
PipelineNumSessions(hq, cfg) == PyInt(15 * hq, cfg.avg)

\* The increment left out.
NextUserCounterStuck(c) == c

\* user_counter += 1
NextUserCounter(c) == c + 1

\* The emptiness check left out.
NoSessionLogsUnchecked(logs) == FALSE

\* if not session_logs
NoSessionLogs(logs) == logs = <<>>

\* f"user_{user_counter}"
UserId(c) == [prefix |-> "user_", n |-> c]

ClampHour(h) == Max(0, Min(23, h))

\* datetime.combine(date, midnight) + timedelta(hours, minutes, seconds), in seconds.
StartSeconds(date, h, m, s) == date * 86400 + h * 3600 + m * 60 + s

\* session_start + timedelta(minutes=duration), in seconds.
EndSeconds(start, duration) == start + 60 * duration

\* One session of simulate_sessions.main: four draws.
MainSession(row, cfg, counter, s1) ==
    LET s2 == RngNext(s1)
        s3 == RngNext(s2)
        s4 == RngNext(s3)
        start_hour == ClampHour(PyInt(PyGaussTenths(s1, cfg.peak, cfg.stddev), 10))
        start_minute == PyRandint(s2, 0, 59)
        start_second == PyRandint(s3, 0, 59)
        start == StartSeconds(row.date, start_hour, start_minute, start_second)
        duration == PyRandint(s4, cfg.dmin, cfg.dmax)
    IN  [user_id |-> UserId(counter), game_name |-> row.game_name,
         session_start |-> start, session_end |-> EndSeconds(start, duration),
         duration |-> duration]

\* One session of pipeline.simulate_sessions: three draws, fixed duration.
PipelineSession(row, cfg, counter, s1) ==
    LET s2 == RngNext(s1)
        s3 == RngNext(s2)
        start == StartSeconds(row.date, PyRandint(s1, 0, 23), PyRandint(s2, 0, 59),
                              PyRandint(s3, 0, 59))
    IN  [user_id |-> UserId(counter), game_name |-> row.game_name,
         session_start |-> start, session_end |-> EndSeconds(start, cfg.avg),
         duration |-> cfg.avg]

RECURSIVE RngSkip(_, _)
RngSkip(s, n) == IF n = 0 THEN s ELSE RngSkip(RngNext(s), n - 1)

\* Mode A leaves the other components alone.
NotA == UNCHANGED <<varsB, varsC, varsN, varsL, varsX>>

IdleA ==
    /\ aVariant = "none" /\ aCfg = [avg |-> 0] /\ aDf = <<>> /\ aRow = 0
    /\ aLeft = 0 /\ user_counter = 0 /\ session_logs = <<>> /\ aPerRow = <<>>
    /\ aNoise = <<>> /\ aRng = 0 /\ aDraws = 0 /\ aSink = None
    /\ pcA = "idle" /\ aExit = "idle"

InitA ==
    /\ \/ aVariant = "main" /\ aCfg \in MainConfigs
       \/ aVariant = "pipeline" /\ aCfg \in PipelineConfigs
    /\ aDf \in InputTables
    /\ aRow = 1
    /\ aLeft = 0
    /\ user_counter = 0
    /\ session_logs = <<>>
    /\ aPerRow = [i \in 1 .. Len(aDf) |-> 0]
    /\ aNoise = [i \in 1 .. Len(aDf) |-> 0]
    /\ aRng \in RngStates
    /\ aDraws = 0
    /\ aSink = None
    /\ pcA = "loop"
    /\ aExit = "running"

\* for _, row in df.iterrows(): a row with hours_played <= 0 is skipped.
A_SkipRow ==
    /\ NotA
    /\ pcA = "loop" /\ aRow <= Len(aDf)
    /\ aDf[aRow].hq <= 0
    /\ aRow' = aRow + 1
    /\ UNCHANGED <<aVariant, aCfg, aDf, aLeft, user_counter, session_logs, aPerRow,
                   aNoise, aRng, aDraws, aSink, pcA, aExit>>

\* simulate_sessions.main: the session count of a row (one uniform draw).
A_MainCount ==
    /\ NotA
    /\ pcA = "loop" /\ aRow <= Len(aDf) /\ aVariant = "main"
    /\ aDf[aRow].hq > 0
    /\ LET p == PyUniformPct(aRng, aCfg.noise)
           n == MainNumSessions(aDf[aRow].hq, aCfg, p)
       IN  /\ aNoise' = [aNoise EXCEPT ![aRow] = p]
           /\ aLeft' = n
           /\ pcA' = IF n > 0 THEN "sessions" ELSE "loop"
           /\ aRow' = IF n > 0 THEN aRow ELSE aRow + 1
    /\ aRng' = RngNext(aRng)
    /\ aDraws' = aDraws + 1
    /\ UNCHANGED <<aVariant, aCfg, aDf, user_counter, session_logs, aPerRow, aSink, aExit>>

\* pipeline.simulate_sessions: the session count of a row; a count <= 0 is skipped.
A_PipelineCount ==
    /\ NotA
    /\ pcA = "loop" /\ aRow <= Len(aDf) /\ aVariant = "pipeline"
    /\ aDf[aRow].hq > 0
    /\ LET n == PipelineNumSessions(aDf[aRow].hq, aCfg)
       IN  /\ aLeft' = IF n <= 0 THEN 0 ELSE n
           /\ pcA' = IF n <= 0 THEN "loop" ELSE "sessions"
           /\ aRow' = IF n <= 0 THEN aRow + 1 ELSE aRow
    /\ UNCHANGED <<aVariant, aCfg, aDf, user_counter, session_logs, aPerRow, aNoise, aRng, aDraws,
                   aSink, aExit>>

\* One iteration of for _ in range(num_sessions).
A_Session ==
    /\ NotA
    /\ pcA = "sessions" /\ aLeft > 0
    /\ user_counter' = NextUserCounter(user_counter)
    /\ LET nd == IF aVariant = "main" THEN 4 ELSE 3
           rec == IF aVariant = "main"
                  THEN MainSession(aDf[aRow], aCfg, user_counter', aRng)
                  ELSE PipelineSession(aDf[aRow], aCfg, user_counter', aRng)
       IN  /\ session_logs' = Append(session_logs, rec)
           /\ aRng' = RngSkip(aRng, nd)
           /\ aDraws' = aDraws + nd
    /\ aPerRow' = [aPerRow EXCEPT ![aRow] = @ + 1]
    /\ aLeft' = aLeft - 1
    /\ pcA' = IF aLeft = 1 THEN "loop" ELSE "sessions"
    /\ aRow' = IF aLeft = 1 THEN aRow + 1 ELSE aRow
    /\ UNCHANGED <<aVariant, aCfg, aDf, aNoise, aSink, aExit>>

\* if not session_logs: main prints and returns, pipeline raises ValueError.
A_NoSessions ==
    /\ NotA
    /\ pcA = "loop" /\ aRow > Len(aDf)
    /\ NoSessionLogs(session_logs)
    /\ pcA' = "done"
    /\ aExit' = IF aVariant = "main" THEN "returned_early" ELSE "ValueError"
    /\ UNCHANGED <<aVariant, aCfg, aDf, aRow, aLeft, user_counter, session_logs,
                   aPerRow, aNoise, aRng, aDraws, aSink>>

\* The session table goes to the database sink.
A_Sink ==
    /\ NotA
    /\ pcA = "loop" /\ aRow > Len(aDf)
    /\ ~NoSessionLogs(session_logs)
    /\ aSink' = Some(session_logs)
    /\ pcA' = "done"
    /\ aExit' = "ok"
    /\ UNCHANGED <<aVariant, aCfg, aDf, aRow, aLeft, user_counter, session_logs,
                   aPerRow, aNoise, aRng, aDraws>>

NextA == A_SkipRow \/ A_MainCount \/ A_PipelineCount \/ A_Session \/ A_NoSessions \/ A_Sink

\* -------------------------------------------------------- cleaning pass
\* round() of pandas/numpy on the real n/d, d > 0: nearest, ties to even.
RoundHalfEven(n, d) ==
    LET q == n \div d
        r == n - q * d
    IN  IF 2 * r < d THEN q
        ELSE IF 2 * r > d THEN q + 1
        ELSE IF q % 2 = 0 THEN q ELSE q + 1

\* datetime.isoformat(): the text's date and time-of-day fields.
IsoFormat(t) ==
    [d |-> t \div 86400, h |-> (t % 86400) \div 3600, m |-> (t % 3600) \div 60,
     s |-> t % 60]

\* pd.to_datetime of one cell: a timestamp in seconds, NaT for a missing cell.
ToDatetime(cell) ==
    IF cell = None THEN None
    ELSE Some(Get(cell).d * 86400 + Get(cell).h * 3600 + Get(cell).m * 60 + Get(cell).s)

\* (session_end - session_start).dt.total_seconds() / 60, rounded; NaN if either is NaT.
RecomputedDuration(row) ==
    LET st == ToDatetime(row.session_start)
        en == ToDatetime(row.session_end)
    IN  IF st = None \/ en = None THEN None
        ELSE Some(RoundHalfEven(Get(en) - Get(st), 60))

\* The columns are converted and session_duration is recomputed, still as floats.
RecomputeRow(row) ==
    [row EXCEPT !.session_start = ToDatetime(row.session_start),
                !.session_end = ToDatetime(row.session_end),
                !.session_duration = RecomputedDuration(row)]

\* df[df['session_duration'] > 0]
PositiveDuration(row) == Get(row.session_duration) > 0

\* dropna(): a row with any missing cell goes.
Complete(row) == \A f \in DOMAIN row : row[f] # None

\* clean_sessions from the recomputation on, for a table without NaN durations.
FilterRows(df) == SelectSeq(SelectSeq(df, PositiveDuration), Complete)

\* clean_sessions as a function: [status, rows, removed].
CleanSessions(df) ==
    IF df = <<>> THEN [status |-> "empty", rows |-> <<>>, removed |-> None]
    ELSE LET re == [i \in 1 .. Len(df) |-> RecomputeRow(df[i])]
         IN  IF \E i \in 1 .. Len(re) : re[i].session_duration = None
             THEN [status |-> "ValueError", rows |-> <<>>, removed |-> None]
             ELSE [status |-> "ok", rows |-> FilterRows(re),
                   removed |-> Some(Len(re) - Len(FilterRows(re)))]

\* pd.DataFrame(sessions): every cell of a simulated session is present.
SessionFrame(sessions) ==
    [i \in 1 .. Len(sessions) |-> [f \in DOMAIN sessions[i] |-> Some(sessions[i][f])]]

\* ---------------------------------------------------------------- Mode B
\* game_weights as the dict's items in key order.
WeightMaps ==
    { <<>>,
      <<[game |-> "A", weight |-> 1]>>,
      <<[game |-> "A", weight |-> 1], [game |-> "B", weight |-> 2]>>,
      <<[game |-> "A", weight |-> 1], [game |-> "B", weight |-> 1]>> }

\* Day numbers with day 0 a Monday: a Friday and a Saturday.
StartDates == {4, 5}

\* The seeding left out: the generator stays where the process left it.
NpSeedSkipped(s, seed) == s

\* np.random.seed(42)
NpSeed(s, seed) == seed % RngMod

\* np.random.randint(lo, hi): hi excluded.
NpRandint(s, lo, hi) ==
    IF hi - lo <= RngMod THEN lo + (s % (hi - lo))
    ELSE lo + (s * (hi - lo - 1)) \div (RngMod - 1)

RECURSIVE SumWeights(_, _)
SumWeights(w, k) == IF k = 0 THEN 0 ELSE SumWeights(w, k - 1) + w[k].weight

\* np.random.choice(games, p=probabilities): the first index whose cumulative
\* probability exceeds the uniform sample s / RngMod.
NpChoiceWeighted(s, w) ==
    LET total == SumWeights(w, Len(w))
        k == CHOOSE j \in 1 .. Len(w) :
                 /\ SumWeights(w, j) * RngMod > s * total
                 /\ \A i \in 1 .. (j - 1) : SumWeights(w, i) * RngMod <= s * total
    IN  w[k].game

\* f'USER_{i:04d}'
PoolUserId(i) == [prefix |-> "USER_", n |-> i]

\* np.random.choice(user_ids)
NpChoiceUser(s, num_users) == PoolUserId(NpRandint(s, 0, num_users) + 1)

\* np.random.triangular(12, 20, 23), in tenths of an hour.
NpTriangularTenths(s) == 120 + (s * 110) \div (RngMod - 1)

\* np.random.normal(19, 3.0), in tenths of an hour: 19 + 3z for z in -7 .. 7.
NpNormalTenths(s) == 190 + 30 * (2 * (s % 8) - 7)

\* np.random.lognormal(3.8, 1.0), in tenths of a minute.
LogNormalTable == <<4, 90, 149, 150, 447, 3000, 6005, 50000>>
NpLognormalTenths(s) == LogNormalTable[(s % 8) + 1]

\* int(np.clip(base_hour, 0, 23))
ClipHour(tenths) == PyInt(Max(0, Min(230, tenths)), 10)

\* The lower clamp left out.
ClampDurationUpperOnly(tenths) == Min(600, PyInt(tenths, 10))

\* max(15, min(600, int(duration)))
ClampDuration(tenths) == Max(15, Min(600, PyInt(tenths, 10)))

\* The body of one loop iteration after the progress check: six draws.
SimulateOne(args, s1) ==
    LET s2 == RngNext(s1)
        s3 == RngNext(s2)
        s4 == RngNext(s3)
        s5 == RngNext(s4)
        s6 == RngNext(s5)
        user == NpChoiceUser(s1, args.num_users)
        game == NpChoiceWeighted(s2, args.game_weights)
        day_offset == NpRandint(s3, 0, args.simulation_days)
        current_date == args.start_date + day_offset
        is_weekend == (current_date % 7) >= 5
        base_hour == IF is_weekend THEN NpTriangularTenths(s4) ELSE NpNormalTenths(s4)
        hour == ClipHour(base_hour)
        minute == NpRandint(s5, 0, 59)
        session_start == current_date * 86400 + hour * 3600 + minute * 60
        duration == ClampDuration(NpLognormalTenths(s6))
        session_end == EndSeconds(session_start, duration)
    IN  [user_id |-> user, game_id |-> game,
         session_start |-> IsoFormat(session_start),
         session_end |-> IsoFormat(session_end),
         session_duration |-> duration,
         day_of_week |-> current_date % 7,
         hour_of_day |-> hour]

NotB == UNCHANGED <<varsA, varsC, varsN, varsL, varsX>>

IdleB ==
    /\ bArgs = [target_session_count |-> 0] /\ bRng = 0 /\ bI = 0 /\ bSessions = <<>> /\ bResult = "idle"
    /\ bDraws = 0 /\ bCall = 0 /\ bFirst = None /\ bSaved = None
    /\ pcB = "idle" /\ bExit = -1

InitB ==
    /\ bArgs \in [game_weights : WeightMaps, num_users : 1 .. MaxUsers,
                  simulation_days : 1 .. MaxDays, start_date : StartDates,
                  target_session_count : 0 .. MaxTarget]
    /\ bRng \in RngStates
    /\ bI = 0
    /\ bSessions = <<>>
    /\ bResult = "running"
    /\ bDraws = 0
    /\ bCall = 1
    /\ bFirst = None
    /\ bSaved = None
    /\ pcB = "call"
    /\ bExit = -1

\* Entry of _simulate_user_sessions: the guard, then the set-up and the seeding.
B_Enter ==
    /\ NotB
    /\ pcB = "call"
    /\ bI' = 0
    /\ bSessions' = <<>>
    /\ bDraws' = 0
    /\ IF bArgs.game_weights = <<>>
       THEN /\ bResult' = "empty_df"
            /\ pcB' = "returned"
            /\ bRng' = bRng
       ELSE /\ bResult' = "running"
            /\ pcB' = "loop"
            /\ bRng' = NpSeed(bRng, 42)
    /\ UNCHANGED <<bArgs, bCall, bFirst, bSaved, bExit>>

\* One iteration of for i in range(target_session_count).
B_Iter ==
    /\ NotB
    /\ pcB = "loop" /\ bI < bArgs.target_session_count
    /\ IF bArgs.target_session_count \div 10 = 0
       THEN \* (i + 1) % (target_session_count // 10): modulo by zero
            /\ bResult' = "ZeroDivisionError"
            /\ pcB' = "raised"
            /\ UNCHANGED <<bRng, bI, bSessions, bDraws>>
       ELSE LET rec == SimulateOne(bArgs, bRng)
            IN  IF rec.hour_of_day \notin 0 .. 23
                THEN \* datetime.replace(hour=...) rejects the hour
                     /\ bResult' = "ValueError"
                     /\ pcB' = "raised"
                     /\ bRng' = RngSkip(bRng, 4)
                     /\ bDraws' = bDraws + 4
                     /\ UNCHANGED <<bI, bSessions>>
                ELSE /\ bSessions' = Append(bSessions, rec)
                     /\ bRng' = RngSkip(bRng, 6)
                     /\ bDraws' = bDraws + 6
                     /\ bI' = bI + 1
                     /\ UNCHANGED <<bResult, pcB>>
    /\ UNCHANGED <<bArgs, bCall, bFirst, bSaved, bExit>>

\* The loop is over: return pd.DataFrame(sessions).
B_Return ==
    /\ NotB
    /\ pcB = "loop" /\ bI >= bArgs.target_session_count
    /\ bResult' = "ok"
    /\ pcB' = "returned"
    /\ UNCHANGED <<bArgs, bRng, bI, bSessions, bDraws, bCall, bFirst, bSaved, bExit>>

\* A second execution with the same arguments, after the process has made any
\* number of other draws from the global generator.
B_Rerun ==
    /\ NotB
    /\ pcB \in {"returned", "raised"} /\ bCall = 1
    /\ bFirst' = Some([result |-> bResult, sessions |-> bSessions])
    /\ bCall' = 2
    /\ bRng' \in RngStates
    /\ pcB' = "call"
    /\ UNCHANGED <<bArgs, bI, bSessions, bResult, bDraws, bSaved, bExit>>

\* __main__: a non-empty table is cleaned and saved, anything else is exit(1).
B_MainFinish ==
    /\ NotB
    /\ pcB = "returned"
    /\ IF bSessions # <<>>
       THEN LET c == CleanSessions(SessionFrame(bSessions))
            IN  /\ bSaved' = IF c.status = "ok" THEN Some(c.rows) ELSE None
                /\ bExit' = IF c.status = "ok" THEN 0 ELSE 1
       ELSE /\ bSaved' = None
            /\ bExit' = 1
    /\ pcB' = "done"
    /\ UNCHANGED <<bArgs, bRng, bI, bSessions, bResult, bDraws, bCall, bFirst>>

\* An exception nobody catches ends the process with a traceback.
B_MainCrash ==
    /\ NotB
    /\ pcB = "raised"
    /\ bExit' = 1
    /\ pcB' = "done"
    /\ UNCHANGED <<bArgs, bRng, bI, bSessions, bResult, bDraws, bCall, bFirst, bSaved>>

NextB == B_Enter \/ B_Iter \/ B_Return \/ B_Rerun \/ B_MainFinish \/ B_MainCrash

\* ------------------------------------------------- cleaning pass, stepwise
CleanRowValues ==
    LET T(x) == Some(IsoFormat(x))
        R(u, st, en, d) == [user_id |-> u, session_start |-> st,
                            session_end |-> en, session_duration |-> Some(d)]
    IN  { R(Some("u1"), T(0), T(900), 15),      \* consistent
          R(Some("u1"), T(0), T(900), 99),      \* stale duration
          R(Some("u2"), T(600), T(600), 5),     \* zero length
          R(Some("u2"), T(600), T(0), 5),       \* end before start
          R(Some("u3"), T(0), T(30), 1),        \* half a minute: rounds to 0
          R(Some("u3"), T(0), T(90), 1),        \* a minute and a half: rounds to 2
          R(None, T(0), T(900), 15),            \* missing user_id
          R(Some("u4"), T(0), None, 15) }       \* missing session_end

IdleC ==
    /\ cIn = <<>> /\ cDf = <<>> /\ cRemoved = None /\ cStatus = "idle" /\ pcC = "idle"

InitC ==
    /\ cIn \in SeqsUpTo(CleanRowValues, MaxCleanRows)
    /\ cDf = cIn
    /\ cRemoved = None
    /\ cStatus = "running"
    /\ pcC = "start"

NotC == UNCHANGED <<varsA, varsB, varsN, varsL, varsX>>

\* if df is None or df.empty: return pd.DataFrame()
C_Empty ==
    /\ NotC
    /\ pcC = "start" /\ cDf = <<>>
    /\ cStatus' = "empty"
    /\ pcC' = "done"
    /\ UNCHANGED <<cIn, cDf, cRemoved>>

\* The conversions and the recomputation; astype(int) raises on a NaN.
C_Recompute ==
    /\ NotC
    /\ pcC = "start" /\ cDf # <<>>
    /\ LET re == [i \in 1 .. Len(cDf) |-> RecomputeRow(cDf[i])]
       IN  IF \E i \in 1 .. Len(re) : re[i].session_duration = None
           THEN /\ cStatus' = "ValueError"
                /\ pcC' = "done"
                /\ cDf' = cDf
           ELSE /\ cDf' = re
                /\ pcC' = "filter"
                /\ cStatus' = cStatus
    /\ UNCHANGED <<cIn, cRemoved>>

\* The two filters and the log line.
C_Filter ==
    /\ NotC
    /\ pcC = "filter"
    /\ cDf' = FilterRows(cDf)
    /\ cRemoved' = Some(Len(cDf) - Len(FilterRows(cDf)))
    /\ cStatus' = "ok"
    /\ pcC' = "done"
    /\ UNCHANGED cIn

NextC == C_Empty \/ C_Recompute \/ C_Filter

\* -------------------------------------------------------- numeric cleaner
\* A Python value: an int n, a float n/d (d a power of ten, lowest terms; NaN
\* has its own kind), a str s (a sequence of characters), pd.NA, or any other
\* object.
IntVal(n) == [kind |-> "int", n |-> n, d |-> 1, s |-> <<>>]
FloatVal(n, d) == [kind |-> "float", n |-> n, d |-> d, s |-> <<>>]
NaNVal == [kind |-> "nan", n |-> 0, d |-> 1, s |-> <<>>]
StrVal(s) == [kind |-> "str", n |-> 0, d |-> 1, s |-> s]
PdNA == [kind |-> "NA", n |-> 0, d |-> 1, s |-> <<>>]
OtherVal == [kind |-> "other", n |-> 0, d |-> 1, s |-> <<>>]

\* isinstance(value, (int, float))
IsNumber(v) == v.kind \in {"int", "float", "nan"}

Quote == "\""
Digits == <<"0", "1", "2", "3", "4", "5", "6", "7", "8", "9">>
IsDigit(c) == \E i \in 1 .. 10 : Digits[i] = c
DigitValue(c) == (CHOOSE i \in 1 .. 10 : Digits[i] = c) - 1
AllDigits(s) == \A i \in 1 .. Len(s) : IsDigit(s[i])

RECURSIVE DigitsValue(_)
DigitsValue(s) ==
    IF s = <<>> THEN 0
    ELSE 10 * DigitsValue(SubSeq(s, 1, Len(s) - 1)) + DigitValue(s[Len(s)])

RECURSIVE Pow10(_)
Pow10(k) == IF k = 0 THEN 1 ELSE 10 * Pow10(k - 1)

\* str.replace(ch, ''): every occurrence goes.
StrRemove(s, ch) == SelectSeq(s, LAMBDA c : c # ch)

\* Only the commas are removed.
StripCommasOnly(s) == StrRemove(s, ",")

\* value.replace('"', '').replace(',', '')
StripQuotesAndCommas(s) == StrRemove(StrRemove(s, Quote), ",")

\* '.' in s
HasDot(s) == \E i \in 1 .. Len(s) : s[i] = "."

HasSign(s) == s # <<>> /\ s[1] \in {"-", "+"}
Unsigned(s) == IF HasSign(s) THEN SubSeq(s, 2, Len(s)) ELSE s
SignOf(s) == IF s # <<>> /\ s[1] = "-" THEN -1 ELSE 1

\* int(s) for a str over the characters of the model: an optional sign and one
\* or more digits; None stands for ValueError.
PyIntOfStr(s) ==
    LET body == Unsigned(s)
    IN  IF body # <<>> /\ AllDigits(body) THEN Some(IntVal(SignOf(s) * DigitsValue(body)))
        ELSE None

RECURSIVE Reduce10(_, _)
Reduce10(n, d) == IF d > 1 /\ n % 10 = 0 THEN Reduce10(n \div 10, d \div 10) ELSE [n |-> n, d |-> d]

\* float(s) for a str with one decimal point: digits on at least one side of it;
\* None stands for ValueError.
PyFloatOfStr(s) ==
    LET body == Unsigned(s)
        dot == CHOOSE i \in 1 .. Len(body) : body[i] = "."
        ip == SubSeq(body, 1, dot - 1)
        fp == SubSeq(body, dot + 1, Len(body))
        r == Reduce10(DigitsValue(ip) * Pow10(Len(fp)) + DigitsValue(fp), Pow10(Len(fp)))
    IN  IF /\ HasDot(body)
           /\ AllDigits(ip) /\ AllDigits(fp)
           /\ Len(ip) + Len(fp) >= 1
        THEN Some(FloatVal(SignOf(s) * r.n, r.d))
        ELSE None

\* try: float(..) if '.' in .. else int(..)  except ValueError: pd.NA
ParseOrNA(cleaned) ==
    LET r == IF HasDot(cleaned) THEN PyFloatOfStr(cleaned) ELSE PyIntOfStr(cleaned)
    IN  IF r = None THEN PdNA ELSE Get(r)

\* utils.clean_numeric_string
clean_numeric_string(value) ==
    IF IsNumber(value) THEN value
    ELSE IF value.kind = "str" THEN ParseOrNA(StripQuotesAndCommas(value.s))
    ELSE PdNA

\* simple_etl.clean_numeric
clean_numeric(value) ==
    IF IsNumber(value) THEN value
    ELSE IF value.kind = "str" THEN ParseOrNA(StrRemove(StrRemove(value.s, Quote), ","))
    ELSE PdNA

NumChars == {"1", "0", ",", Quote, ".", "-", "a"}

NumericInputs ==
    { StrVal(s) : s \in SeqsUpTo(NumChars, MaxStrLen) }
    \cup { StrVal(<<"1", ",", "2", "3", "4">>), StrVal(<<"1", "2", ".", "5", "0">>),
           StrVal(<<"a", "b", "c">>),
           StrVal(<<Quote, "1", ",", "2", "3", "4", ".", "5", Quote>>) }
    \cup { IntVal(0), IntVal(-7), IntVal(1234), FloatVal(125, 10), NaNVal, PdNA, OtherVal }

IdleN == nValue = PdNA /\ nUtils = None /\ nSimple = None /\ pcN = "idle"

InitN == nValue \in NumericInputs /\ nUtils = None /\ nSimple = None /\ pcN = "start"

NotN == UNCHANGED <<varsA, varsB, varsC, varsL, varsX>>

N_CleanUtils ==
    /\ NotN
    /\ pcN = "start" /\ nUtils = None
    /\ nUtils' = Some(clean_numeric_string(nValue))
    /\ pcN' = IF nSimple # None THEN "done" ELSE pcN
    /\ UNCHANGED <<nValue, nSimple>>

N_CleanSimple ==
    /\ NotN
    /\ pcN = "start" /\ nSimple = None
    /\ nSimple' = Some(clean_numeric(nValue))
    /\ pcN' = IF nUtils # None THEN "done" ELSE pcN
    /\ UNCHANGED <<nValue, nUtils>>

NextN == N_CleanUtils \/ N_CleanSimple

\* ----------------------------------------------------------------- loaders
\* str(cell) of pandas' astype(str), for the cells a loaded column holds.
RECURSIVE NatToStr(_)
NatToStr(n) == IF n < 10 THEN <<Digits[n + 1]>> ELSE NatToStr(n \div 10) \o <<Digits[(n % 10) + 1]>>

CellToStr(v) ==
    IF v.kind = "str" THEN v.s
    ELSE IF v.kind = "nan" THEN <<"n", "a", "n">>
    ELSE IF v.n < 0 THEN <<"-">> \o NatToStr(0 - v.n) ELSE NatToStr(v.n)

\* generate_sessions._clean_numeric_column on one cell: every non-digit goes,
\* an empty text becomes '0', the rest is read as an int.
CleanNumericCell(v) ==
    LET digits == SelectSeq(CellToStr(v), IsDigit)
    IN  IF digits = <<>> THEN 0 ELSE DigitsValue(digits)

\* dropna(subset=[...]) looks at pd.NA and NaN alike.
IsMissing(v) == v.kind \in {"NA", "nan"}

RawRowValues ==
    { [id |-> 1, name |-> "A", peak |-> StrVal(<<"1", ",", "0">>), hours |-> StrVal(<<"2", ".", "5">>)],
      [id |-> 2, name |-> "A", peak |-> StrVal(<<"a">>), hours |-> StrVal(<<"5">>)],
      [id |-> 3, name |-> "B", peak |-> StrVal(<<"7">>), hours |-> NaNVal],
      [id |-> 4, name |-> "B", peak |-> NaNVal, hours |-> StrVal(<<"1">>)],
      [id |-> 5, name |-> "C", peak |-> StrVal(<<"1", "0">>), hours |-> StrVal(<<"3">>)] }

RowOf(i) == CHOOSE r \in RawRowValues : r.id = i

\* A matched file: whether its name fits the date pattern, the date parsed from
\* it (None if invalid), what read_csv finds, whether the required columns are
\* there after normalisation, and its rows.
FileValues ==
    { [name_ok |-> TRUE, date |-> Some(3), content |-> "rows", has_cols |-> TRUE,
       rows |-> <<RowOf(1), RowOf(2)>>],
      [name_ok |-> TRUE, date |-> Some(4), content |-> "rows", has_cols |-> TRUE,
       rows |-> <<RowOf(3), RowOf(5)>>],
      [name_ok |-> TRUE, date |-> Some(5), content |-> "rows", has_cols |-> TRUE,
       rows |-> <<RowOf(4)>>],
      [name_ok |-> FALSE, date |-> None, content |-> "rows", has_cols |-> TRUE,
       rows |-> <<RowOf(1)>>],
      [name_ok |-> TRUE, date |-> None, content |-> "rows", has_cols |-> TRUE,
       rows |-> <<RowOf(5)>>],
      [name_ok |-> TRUE, date |-> Some(6), content |-> "header_only", has_cols |-> TRUE,
       rows |-> <<>>],
      [name_ok |-> TRUE, date |-> Some(7), content |-> "rows", has_cols |-> FALSE,
       rows |-> <<RowOf(1)>>],
      [name_ok |-> TRUE, date |-> Some(8), content |-> "zero_bytes", has_cols |-> FALSE,
       rows |-> <<>>],
      [name_ok |-> TRUE, date |-> Some(9), content |-> "rows", has_cols |-> TRUE,
       rows |-> <<RowOf(2), RowOf(4)>>] }

\* Whether the loader at hand goes past its per-file checks with this file.
\* The weight path globs *.csv and never looks at the name or a date.
FileSkipped(path, f) ==
    IF path = "weights"
    THEN f.content = "zero_bytes" \/ ~f.has_cols
    ELSE \/ ~f.name_ok
         \/ f.date = None
         \/ f.content = "header_only"
         \/ (f.content = "rows" /\ ~f.has_cols)

\* pd.read_csv of a file without any byte raises EmptyDataError, which only the
\* weight path catches.
FileAborts(path, f) ==
    path # "weights" /\ f.name_ok /\ f.date # None /\ f.content = "zero_bytes"

\* The rows a file adds to the list, each with the place it came from.
\* Daily loaders: the four columns as read plus the file date.
\* Weight path: name stripped, peak_players through _clean_numeric_column.
FrameRows(path, f, base) ==
    [k \in 1 .. Len(f.rows) |->
        IF path = "weights"
        THEN [src |-> base + k, id |-> f.rows[k].id, game_name |-> f.rows[k].name,
              peak_players |-> IntVal(CleanNumericCell(f.rows[k].peak)),
              hours_played |-> f.rows[k].hours, date |-> 0]
        ELSE [src |-> base + k, id |-> f.rows[k].id, game_name |-> f.rows[k].name,
              peak_players |-> f.rows[k].peak,
              hours_played |-> f.rows[k].hours, date |-> Get(f.date)]]

\* apply(clean_numeric_string) on both numeric columns (clean_numeric in simple_etl).
CleanRow(path, row) ==
    IF path = "simple"
    THEN [row EXCEPT !.peak_players = clean_numeric(row.peak_players),
                     !.hours_played = clean_numeric(row.hours_played)]
    ELSE [row EXCEPT !.peak_players = clean_numeric_string(row.peak_players),
                     !.hours_played = clean_numeric_string(row.hours_played)]

\* dropna(subset=['peak_no._of_players', 'hours_played'])
HasBothNumbers(row) == ~IsMissing(row.peak_players) /\ ~IsMissing(row.hours_played)

\* The aggregate table of the daily loaders from the concatenated rows.
AggregateTable(path, rows) ==
    SelectSeq([k \in 1 .. Len(rows) |-> CleanRow(path, rows[k])], HasBothNumbers)

\* groupby('name')['peak_players'].mean() as the pair sum, count.
GameNames(rows) == { rows[k].game_name : k \in 1 .. Len(rows) }

RECURSIVE PeakSum(_, _, _)
PeakSum(rows, g, k) ==
    IF k = 0 THEN 0
    ELSE PeakSum(rows, g, k - 1) + (IF rows[k].game_name = g THEN rows[k].peak_players.n ELSE 0)

PeakCount(rows, g) == Cardinality({ k \in 1 .. Len(rows) : rows[k].game_name = g })

MeanLess(rows, g, h) ==
    PeakSum(rows, g, Len(rows)) * PeakCount(rows, h) < PeakSum(rows, h, Len(rows)) * PeakCount(rows, g)

MeanEqual(rows, g, h) ==
    PeakSum(rows, g, Len(rows)) * PeakCount(rows, h) = PeakSum(rows, h, Len(rows)) * PeakCount(rows, g)

\* The rank of method='min': one more than the number of games below.
MinRank(rows, g) ==
    1 + Cardinality({ h \in GameNames(rows) : MeanLess(rows, h, g) })

\* .rank(method='dense'): one more than the number of distinct smaller means.
DenseRank(rows, g) ==
    LET smaller == { h \in GameNames(rows) : MeanLess(rows, h, g) }
        SameMean(h) == { x \in GameNames(rows) : MeanEqual(rows, x, h) }
    IN  1 + Cardinality({ SameMean(h) : h \in smaller })

\* generate_sessions._calculate_game_weights
CalculateGameWeights(rows) == [g \in GameNames(rows) |-> DenseRank(rows, g)]

IdleL ==
    /\ lPath = "none" /\ lFiles = <<>> /\ lIdx = 0 /\ lFrames = 0 /\ lRows = <<>>
    /\ lRaw = <<>> /\ lTable = None /\ lWeights = None /\ lExit = "idle" /\ pcL = "idle"

InitL ==
    /\ lPath \in {"daily", "simple", "weights"}
    /\ lFiles \in SeqsUpTo(FileValues, MaxFiles)
    /\ lIdx = 1
    /\ lFrames = 0
    /\ lRows = <<>>
    /\ lRaw = <<>>
    /\ lTable = None
    /\ lWeights = None
    /\ lExit = "running"
    /\ pcL = "glob"

NotL == UNCHANGED <<varsA, varsB, varsC, varsN, varsX>>

\* files = glob.glob(pattern); if not files: raise / print and return.
\* The weight path has no such check.
L_Glob ==
    /\ NotL
    /\ pcL = "glob"
    /\ IF lFiles = <<>> /\ lPath # "weights"
       THEN /\ pcL' = "done"
            /\ lExit' = IF lPath = "daily" THEN "FileNotFoundError" ELSE "returned_early"
       ELSE /\ pcL' = "files"
            /\ lExit' = lExit
    /\ UNCHANGED <<lPath, lFiles, lIdx, lFrames, lRows, lRaw, lTable, lWeights>>

\* One iteration of the loop over the files that ends in continue.
L_SkipFile ==
    /\ NotL
    /\ pcL = "files" /\ lIdx <= Len(lFiles)
    /\ ~FileAborts(lPath, lFiles[lIdx])
    /\ FileSkipped(lPath, lFiles[lIdx])
    /\ lIdx' = lIdx + 1
    /\ UNCHANGED <<lPath, lFiles, lFrames, lRows, lRaw, lTable, lWeights, lExit, pcL>>

\* One iteration in which read_csv raises and nobody catches it.
L_AbortFile ==
    /\ NotL
    /\ pcL = "files" /\ lIdx <= Len(lFiles)
    /\ FileAborts(lPath, lFiles[lIdx])
    /\ lExit' = "EmptyDataError"
    /\ pcL' = "done"
    /\ UNCHANGED <<lPath, lFiles, lIdx, lFrames, lRows, lRaw, lTable, lWeights>>

\* One iteration that appends the file's frame to the list.
L_TakeFile ==
    /\ NotL
    /\ pcL = "files" /\ lIdx <= Len(lFiles)
    /\ ~FileAborts(lPath, lFiles[lIdx])
    /\ ~FileSkipped(lPath, lFiles[lIdx])
    /\ lRows' = lRows \o FrameRows(lPath, lFiles[lIdx], Len(lRaw))
    /\ lRaw' = lRaw \o lFiles[lIdx].rows
    /\ lFrames' = lFrames + 1
    /\ lIdx' = lIdx + 1
    /\ UNCHANGED <<lPath, lFiles, lTable, lWeights, lExit, pcL>>

\* The list is empty after the loop.
L_NothingLoaded ==
    /\ NotL
    /\ pcL = "files" /\ lIdx > Len(lFiles)
    /\ lFrames = 0
    /\ lExit' = IF lPath = "daily" THEN "ValueError"
                ELSE IF lPath = "simple" THEN "returned_early" ELSE "aborted"
    /\ pcL' = "done"
    /\ UNCHANGED <<lPath, lFiles, lIdx, lFrames, lRows, lRaw, lTable, lWeights>>

\* Daily loaders: concat, clean, dropna, rename; the table is returned / saved.
L_Finish ==
    /\ NotL
    /\ pcL = "files" /\ lIdx > Len(lFiles)
    /\ lFrames > 0 /\ lPath # "weights"
    /\ lTable' = Some(AggregateTable(lPath, lRows))
    /\ lExit' = "ok"
    /\ pcL' = "done"
    /\ UNCHANGED <<lPath, lFiles, lIdx, lFrames, lRows, lRaw, lWeights>>

\* Weight path: the frames are concatenated and ranked by mean peak_players;
\* generate_sessions aborts on an empty mapping.
L_Weights ==
    /\ NotL
    /\ pcL = "files" /\ lIdx > Len(lFiles)
    /\ lFrames > 0 /\ lPath = "weights"
    /\ lTable' = Some(lRows)
    /\ lWeights' = Some(CalculateGameWeights(lRows))
    /\ lExit' = IF lRows = <<>> THEN "aborted" ELSE "ok"
    /\ pcL' = "done"
    /\ UNCHANGED <<lPath, lFiles, lIdx, lFrames, lRows, lRaw>>

NextL == L_Glob \/ L_SkipFile \/ L_AbortFile \/ L_TakeFile \/ L_NothingLoaded
           \/ L_Finish \/ L_Weights

\* ------------------------------------------------------- column normalizer
\* A header is a sequence of characters.  str.strip() and the pattern \s take
\* the same characters for whitespace; the model has the space and the tab.
Whitespace == {" ", "\t"}

UpperLetters == <<"N", "O", "P">>
LowerLetters == <<"n", "o", "p">>

\* str.lower()
LowerChar(c) ==
    IF \E i \in 1 .. Len(UpperLetters) : UpperLetters[i] = c
    THEN LowerLetters[CHOOSE i \in 1 .. Len(UpperLetters) : UpperLetters[i] = c]
    ELSE c

StrLower(s) == [i \in 1 .. Len(s) |-> LowerChar(s[i])]

RECURSIVE StrLStrip(_)
StrLStrip(s) ==
    IF s # <<>> /\ s[1] \in Whitespace THEN StrLStrip(SubSeq(s, 2, Len(s))) ELSE s

RECURSIVE StrRStrip(_)
StrRStrip(s) ==
    IF s # <<>> /\ s[Len(s)] \in Whitespace THEN StrRStrip(SubSeq(s, 1, Len(s) - 1)) ELSE s

\* str.strip()
StrStrip(s) == StrRStrip(StrLStrip(s))

\* Only the first double quote is removed.
StripFirstQuote(s) ==
    IF \E i \in 1 .. Len(s) : s[i] = Quote
    THEN LET i == CHOOSE j \in 1 .. Len(s) : s[j] = Quote /\ \A k \in 1 .. (j - 1) : s[k] # Quote
         IN  SubSeq(s, 1, i - 1) \o SubSeq(s, i + 1, Len(s))
    ELSE s

\* name.replace('"', '')
StripQuotes(s) == StrRemove(s, Quote)

\* re.sub of a pattern [chars]+ by '_': every maximal run of characters of
\* the set becomes one underscore.
RECURSIVE ReSubRuns(_, _)
ReSubRuns(s, chars) ==
    IF s = <<>> THEN <<>>
    ELSE IF s[1] \in chars
         THEN IF Len(s) >= 2 /\ s[2] \in chars
              THEN ReSubRuns(SubSeq(s, 2, Len(s)), chars)
              ELSE <<"_">> \o ReSubRuns(SubSeq(s, 2, Len(s)), chars)
         ELSE <<s[1]>> \o ReSubRuns(SubSeq(s, 2, Len(s)), chars)

\* utils.clean_column_name
clean_column_name(name) == StrLower(ReSubRuns(StrStrip(StripQuotes(name)), Whitespace))

\* simple_etl.clean_column
clean_column(name) == StrLower(ReSubRuns(StrStrip(StrRemove(name, Quote)), Whitespace))

\* df.columns.str.strip().str.lower().str.replace(r'[\s\-]+', '_', regex=True)
StandardizeColumn(name) == ReSubRuns(StrLower(StrStrip(name)), Whitespace \cup {"-"})

NormalizeWith(fn, name) ==
    IF fn = "utils" THEN clean_column_name(name)
    ELSE IF fn = "simple" THEN clean_column(name)
    ELSE StandardizeColumn(name)

HeaderChars == {Quote, " ", "\t", "-", "P", "p", "_", ".", "'"}

\* " Peak-No. Of Players "
PeakHeader ==
    <<" ", "P", "e", "a", "k", "-", "N", "o", ".", " ", "O", "f", " ",
      "P", "l", "a", "y", "e", "r", "s", " ">>

HeaderInputs ==
    SeqsUpTo(HeaderChars, MaxHeaderLen)
    \cup { PeakHeader,
           <<Quote, " ", "P", "-", " ", "-", "p", " ", "\t", " ", "O", Quote, " ">>,
           <<" ", Quote, "N", Quote, "\t", Quote>> }

IdleK == kFn = "none" /\ kName = <<>> /\ kOnce = None /\ kTwice = None /\ pcK = "idle"

InitK ==
    /\ kFn \in {"utils", "simple", "standardize"}
    /\ kName \in HeaderInputs
    /\ kOnce = None
    /\ kTwice = None
    /\ pcK = "start"

NotK == UNCHANGED <<varsA, varsB, varsC, varsN, varsL, varsD, varsE, varsG>>

\* The normalizer is called on the header.
K_Normalize ==
    /\ NotK
    /\ pcK = "start"
    /\ kOnce' = Some(NormalizeWith(kFn, kName))
    /\ pcK' = "once"
    /\ UNCHANGED <<kFn, kName, kTwice>>

\* The normalizer is called on what it returned.
K_NormalizeAgain ==
    /\ NotK
    /\ pcK = "once"
    /\ kTwice' = Some(NormalizeWith(kFn, Get(kOnce)))
    /\ pcK' = "done"
    /\ UNCHANGED <<kFn, kName, kOnce>>

NextK == K_Normalize \/ K_NormalizeAgain

\* -------------------------------------------------------- persistence sink
\* A table is its rows in insertion order and the AUTOINCREMENT counter kept
\* for it in sqlite_sequence.  sqlite3 connections in their default mode open
\* a transaction before an INSERT only: DROP TABLE and CREATE TABLE take
\* effect in the database file at once.
EmptyTable == [rows |-> <<>>, auto |-> 0]

\* DROP TABLE IF EXISTS session_logs
DropTable(table) == None

\* CREATE TABLE session_logs (session_id INTEGER PRIMARY KEY AUTOINCREMENT, ...)
CreateTable(table) == Some(EmptyTable)

\* The session_id of every inserted row is 1.
NextSessionIdFixed(auto) == 1

\* AUTOINCREMENT: one more than the largest session_id the table ever had.
NextSessionId(auto) == auto + 1

\* INSERT of one row of the batch.
InsertRow(table, row) ==
    LET tb == Get(table)
        sid == NextSessionId(tb.auto)
    IN  Some([rows |-> Append(tb.rows, [session_id |-> sid, run |-> row.run, k |-> row.k]),
              auto |-> sid])

\* commit: what the connection sees becomes the content of the file.
SqlCommit(working, durable) == working

\* rollback: the connection sees the content of the file again.
SqlRollback(working, durable) == durable

\* sessions_df of a run: its rows carry the number of the run.
BatchOf(run, n) == [k \in 1 .. n |-> [run |-> run, k |-> k]]

IdleD ==
    /\ dVariant = "none" /\ dDurable = None /\ dWorking = None /\ dInTxn = FALSE
    /\ dRun = 0 /\ dBatch = <<>> /\ dDone = 0 /\ dTrace = <<>> /\ dPrior = None
    /\ dAllOk = TRUE /\ dExit = "idle" /\ pcD = "off"

InitD ==
    /\ dVariant \in {"pipeline", "main"}
    /\ dDurable = None /\ dWorking = None /\ dInTxn = FALSE
    /\ dRun = 0 /\ dBatch = <<>> /\ dDone = 0 /\ dTrace = <<>> /\ dPrior = None
    /\ dAllOk = TRUE /\ dExit = "none" /\ pcD = "idle"

NotD == UNCHANGED <<varsA, varsB, varsC, varsN, varsL, varsK, varsE, varsG>>

\* A run reaches the sink with a non-empty sessions_df: sqlite3.connect.
D_Connect ==
    /\ NotD
    /\ pcD = "idle" /\ dRun < MaxRuns
    /\ \E n \in 1 .. MaxBatch : dBatch' = BatchOf(dRun + 1, n)
    /\ dRun' = dRun + 1
    /\ dDone' = 0
    /\ dWorking' = dDurable
    /\ dPrior' = dDurable
    /\ dTrace' = <<"connect">>
    /\ dExit' = "running"
    /\ pcD' = "drop"
    /\ UNCHANGED <<dVariant, dDurable, dInTxn, dAllOk>>

D_Drop ==
    /\ NotD
    /\ pcD = "drop"
    /\ dWorking' = DropTable(dWorking)
    /\ dDurable' = DropTable(dWorking)
    /\ dTrace' = Append(dTrace, "drop")
    /\ pcD' = "create"
    /\ UNCHANGED <<dVariant, dInTxn, dRun, dBatch, dDone, dPrior, dAllOk, dExit>>

D_Create ==
    /\ NotD
    /\ pcD = "create"
    /\ dWorking' = CreateTable(dWorking)
    /\ dDurable' = CreateTable(dWorking)
    /\ dTrace' = Append(dTrace, "create")
    /\ pcD' = "to_sql"
    /\ UNCHANGED <<dVariant, dInTxn, dRun, dBatch, dDone, dPrior, dAllOk, dExit>>

\* to_sql inserts the next row; the first INSERT opens the transaction.
D_InsertRow ==
    /\ NotD
    /\ pcD = "to_sql" /\ dDone < Len(dBatch)
    /\ dWorking' = InsertRow(dWorking, dBatch[dDone + 1])
    /\ dDone' = dDone + 1
    /\ dInTxn' = TRUE
    /\ dTrace' = IF dDone = 0 THEN Append(dTrace, "to_sql") ELSE dTrace
    /\ UNCHANGED <<dVariant, dDurable, dRun, dBatch, dPrior, dAllOk, dExit, pcD>>

\* to_sql has inserted every row and returns; pandas commits its transaction.
D_InsertDone ==
    /\ NotD
    /\ pcD = "to_sql" /\ dDone = Len(dBatch)
    /\ dDurable' = SqlCommit(dWorking, dDurable)
    /\ dInTxn' = FALSE
    /\ pcD' = "commit"
    /\ UNCHANGED <<dVariant, dWorking, dRun, dBatch, dDone, dTrace, dPrior, dAllOk, dExit>>

\* An INSERT of to_sql fails, before any row or after some: pandas rolls its
\* transaction back and passes the exception on.
D_InsertFail ==
    /\ NotD
    /\ pcD = "to_sql" /\ dDone < Len(dBatch)
    /\ dWorking' = SqlRollback(dWorking, dDurable)
    /\ dInTxn' = FALSE
    /\ dTrace' = IF dDone = 0 THEN Append(dTrace, "to_sql") ELSE dTrace
    /\ dAllOk' = FALSE
    /\ pcD' = "except"
    /\ UNCHANGED <<dVariant, dDurable, dRun, dBatch, dDone, dPrior, dExit>>

\* conn.commit()
D_Commit ==
    /\ NotD
    /\ pcD = "commit"
    /\ dDurable' = SqlCommit(dWorking, dDurable)
    /\ dTrace' = Append(dTrace, "commit")
    /\ dExit' = "ok"
    /\ pcD' = "finally"
    /\ UNCHANGED <<dVariant, dWorking, dInTxn, dRun, dBatch, dDone, dPrior, dAllOk>>

\* except Exception: pipeline.py rolls back and raises again;
\* simulate_sessions.py prints the error and goes on.
D_Except ==
    /\ NotD
    /\ pcD = "except"
    /\ IF dVariant = "pipeline"
       THEN /\ dWorking' = SqlRollback(dWorking, dDurable)
            /\ dTrace' = Append(dTrace, "rollback")
            /\ dExit' = "Exception"
       ELSE /\ dWorking' = dWorking
            /\ dTrace' = dTrace
            /\ dExit' = "printed"
    /\ pcD' = "finally"
    /\ UNCHANGED <<dVariant, dDurable, dInTxn, dRun, dBatch, dDone, dPrior, dAllOk>>

\* finally: conn.close(); the run is over.
D_Close ==
    /\ NotD
    /\ pcD = "finally"
    /\ dWorking' = dDurable
    /\ dTrace' = Append(dTrace, "close")
    /\ pcD' = "idle"
    /\ UNCHANGED <<dVariant, dDurable, dInTxn, dRun, dBatch, dDone, dPrior, dAllOk, dExit>>

NextD == D_Connect \/ D_Drop \/ D_Create \/ D_InsertRow \/ D_InsertDone
           \/ D_InsertFail \/ D_Commit \/ D_Except \/ D_Close

\* ------------------------------------------------------------ entry points
\* A run goes through the stages of its script in order.  At a stage whose
\* fatal condition is present the script does one of:
\*   "raise"   an exception leaves the script uncaught: status 1
\*   "exit1"   exit(1)
\*   "return"  the message is printed and main returns: status 0
\*   "swallow" the error is logged and the script goes on
\*   "n/a"     the script has no such stage
Stages == <<"config", "input", "rows", "synth", "sink">>

Entries == {"run_etl", "simple_etl", "simulate_sessions", "generate_sessions",
            "fetch_steam_data"}

\* pipeline.py as a script: nothing is caught.
RunEtlOutcome(stage) == "raise"

\* simple_etl.py: no configuration, no synthesis; the output file is written
\* outside any try.
SimpleEtlOutcome(stage) ==
    IF stage \in {"input", "rows"} THEN "return"
    ELSE IF stage = "sink" THEN "raise"
    ELSE "n/a"

\* simulate_sessions.py: config.yaml is read at module level; main prints and
\* returns on a missing data file and on no sessions, and prints the database
\* error.
MainOutcome(stage) ==
    IF stage = "config" THEN "raise"
    ELSE IF stage \in {"input", "synth"} THEN "return"
    ELSE IF stage = "sink" THEN "swallow"
    ELSE "n/a"

\* generate_sessions.py as a script.
GenerateOutcome(stage) == "exit1"

\* fetch_steam_data.py as a script: insert_player_counts logs the database
\* error and rolls back.
FetchOutcome(stage) ==
    IF stage = "config" THEN "exit1"
    ELSE IF stage = "sink" THEN "swallow"
    ELSE "n/a"

Outcome(entry, stage) ==
    IF entry = "run_etl" THEN RunEtlOutcome(stage)
    ELSE IF entry = "simple_etl" THEN SimpleEtlOutcome(stage)
    ELSE IF entry = "simulate_sessions" THEN MainOutcome(stage)
    ELSE IF entry = "generate_sessions" THEN GenerateOutcome(stage)
    ELSE FetchOutcome(stage)

\* The status a script ends with after the outcome at a stage.
StatusOf(outcome) == IF outcome \in {"raise", "exit1"} THEN 1 ELSE 0

IdleE == eEntry = "none" /\ eFaults = {} /\ eFatal = {} /\ eStatus = -1 /\ pcE = 0

InitE ==
    /\ eEntry \in Entries
    /\ eFaults \in SUBSET { Stages[i] : i \in 1 .. Len(Stages) }
    /\ eFatal = {}
    /\ eStatus = -1
    /\ pcE = 1

NotE == UNCHANGED <<varsA, varsB, varsC, varsN, varsL, varsK, varsD, varsG>>

\* The stage the run is at has no fatal condition, or the script has no such
\* stage: the run goes on.
E_Pass ==
    /\ NotE
    /\ pcE \in 1 .. Len(Stages)
    /\ Stages[pcE] \notin eFaults \/ Outcome(eEntry, Stages[pcE]) = "n/a"
    /\ pcE' = pcE + 1
    /\ UNCHANGED <<eEntry, eFaults, eFatal, eStatus>>

\* The fatal condition of the stage ends the script.
E_Stop ==
    /\ NotE
    /\ pcE \in 1 .. Len(Stages)
    /\ Stages[pcE] \in eFaults
    /\ Outcome(eEntry, Stages[pcE]) \in {"raise", "exit1", "return"}
    /\ eFatal' = eFatal \cup {Stages[pcE]}
    /\ eStatus' = StatusOf(Outcome(eEntry, Stages[pcE]))
    /\ pcE' = Len(Stages) + 2
    /\ UNCHANGED <<eEntry, eFaults>>

\* The fatal condition of the stage is logged and the script goes on.
E_Swallow ==
    /\ NotE
    /\ pcE \in 1 .. Len(Stages)
    /\ Stages[pcE] \in eFaults
    /\ Outcome(eEntry, Stages[pcE]) = "swallow"
    /\ eFatal' = eFatal \cup {Stages[pcE]}
    /\ pcE' = pcE + 1
    /\ UNCHANGED <<eEntry, eFaults, eStatus>>

\* The script runs off its end.
E_Finish ==
    /\ NotE
    /\ pcE = Len(Stages) + 1
    /\ eStatus' = 0
    /\ pcE' = Len(Stages) + 2
    /\ UNCHANGED <<eEntry, eFaults, eFatal>>

NextE == E_Pass \/ E_Stop \/ E_Swallow \/ E_Finish

\* -------------------------------------------------------------- games table
AppIds == 1 .. MaxApps

\* A name is the one the store API has for the game or the text AppID_<app_id>.
RealName(app_id) == [kind |-> "real", id |-> app_id]
PlaceholderName(app_id) == [kind |-> "AppID_", id |-> app_id]

\* What the request of get_game_name can come to.
Responses == {"name", "empty_name", "unsuccessful", "http_error", "network_error",
              "not_json"}

\* get_game_name: the name of a successful answer that has one, None in
\* every other case, whatever went wrong.
get_game_name(app_id, response) ==
    IF response = "name" THEN Some(RealName(app_id)) ELSE None

\* The row is inserted with what the lookup returned, no name included.
NameAsLookedUp(app_id, game_name) ==
    IF game_name = None THEN [kind |-> "none", id |-> app_id] ELSE Get(game_name)

\* if not game_name: game_name = f"AppID_{app_id}"
NameOrFallback(app_id, game_name) ==
    IF game_name = None THEN PlaceholderName(app_id) ELSE Get(game_name)

\* INSERT ... ON CONFLICT(app_id) DO NOTHING, row after row.
RECURSIVE InsertGames(_, _)
InsertGames(table, rows) ==
    IF rows = <<>> THEN table
    ELSE LET r == rows[1]
             next == IF table[r.app_id] = None
                     THEN [table EXCEPT ![r.app_id] =
                              Some([name |-> r.name, first_seen |-> r.first_seen,
                                    last_seen |-> r.last_seen])]
                     ELSE table
         IN  InsertGames(next, SubSeq(rows, 2, Len(rows)))

\* UPDATE games SET last_seen_timestamp = ? WHERE app_id = ?, row after row.
RECURSIVE UpdateLastSeen(_, _, _)
UpdateLastSeen(table, ids, ts) ==
    IF ids = <<>> THEN table
    ELSE LET next == IF table[ids[1]] = None THEN table
                     ELSE [table EXCEPT ![ids[1]] =
                              Some([Get(table[ids[1]]) EXCEPT !.last_seen = ts])]
         IN  UpdateLastSeen(next, SubSeq(ids, 2, Len(ids)), ts)

\* UPDATE games SET name = ? WHERE app_id = ?
UpdateName(table, app_id, name) ==
    [table EXCEPT ![app_id] = Some([Get(table[app_id]) EXCEPT !.name = name])]

\* The top games of a run: app ids, each once.
Batches ==
    { b \in SeqsUpTo(AppIds, MaxApps) :
        b # <<>> /\ \A i \in 1 .. Len(b) : \A j \in 1 .. Len(b) : i # j => b[i] # b[j] }

NoLookups == [a \in AppIds |-> "none"]

IdleG ==
    /\ gGames = <<>> /\ gWork = <<>> /\ gPrior = <<>> /\ gRun = 0 /\ gBatch = <<>>
    /\ gIdx = 0 /\ existing_games = <<>> /\ games_to_insert = <<>>
    /\ app_ids_to_update_timestamp = <<>> /\ gLooked = <<>> /\ gTrace = <<>>
    /\ pcG = "off"

InitG ==
    /\ gGames = [a \in AppIds |-> None]
    /\ gWork = [a \in AppIds |-> None]
    /\ gPrior = [a \in AppIds |-> None]
    /\ gRun = 0 /\ gBatch = <<>> /\ gIdx = 0
    /\ existing_games = [a \in AppIds |-> None]
    /\ games_to_insert = <<>>
    /\ app_ids_to_update_timestamp = <<>>
    /\ gLooked = NoLookups
    /\ gTrace = <<>>
    /\ pcG = "idle"

NotG == UNCHANGED <<varsA, varsB, varsC, varsN, varsL, varsK, varsD, varsE>>

\* update_games_table is called: the names of the games of the batch that
\* are in the table are read.
G_Start ==
    /\ NotG
    /\ pcG = "idle" /\ gRun < MaxFetchRuns
    /\ gBatch' \in Batches
    /\ gRun' = gRun + 1
    /\ gPrior' = gGames
    /\ gWork' = gGames
    /\ existing_games' =
           [a \in AppIds |->
               IF (\E i \in 1 .. Len(gBatch') : gBatch'[i] = a) /\ gGames[a] # None
               THEN Some(Get(gGames[a]).name) ELSE None]
    /\ gIdx' = 1
    /\ games_to_insert' = <<>>
    /\ app_ids_to_update_timestamp' = <<>>
    /\ gLooked' = NoLookups
    /\ gTrace' = <<>>
    /\ pcG' = "loop"
    /\ UNCHANGED gGames

\* A game that is not in the table: lookup, fallback, insert list, delay.
G_NewGame ==
    /\ NotG
    /\ pcG = "loop" /\ gIdx <= Len(gBatch)
    /\ existing_games[gBatch[gIdx]] = None
    /\ \E response \in Responses :
           LET app_id == gBatch[gIdx]
               game_name == get_game_name(app_id, response)
           IN  /\ games_to_insert' =
                      Append(games_to_insert,
                             [app_id |-> app_id, name |-> NameOrFallback(app_id, game_name),
                              first_seen |-> gRun, last_seen |-> gRun])
               /\ gLooked' = [gLooked EXCEPT ![app_id] =
                                 IF game_name = None THEN "failed" ELSE "found"]
    /\ gTrace' = gTrace \o <<"lookup", "sleep">>
    /\ gIdx' = gIdx + 1
    /\ UNCHANGED <<gGames, gWork, gPrior, gRun, gBatch, existing_games,
                   app_ids_to_update_timestamp, pcG>>

\* A game that is in the table under a name of its own: no lookup.
G_KnownGame ==
    /\ NotG
    /\ pcG = "loop" /\ gIdx <= Len(gBatch)
    /\ existing_games[gBatch[gIdx]] # None
    /\ Get(existing_games[gBatch[gIdx]]) # PlaceholderName(gBatch[gIdx])
    /\ app_ids_to_update_timestamp' = Append(app_ids_to_update_timestamp, gBatch[gIdx])
    /\ gIdx' = gIdx + 1
    /\ UNCHANGED <<gGames, gWork, gPrior, gRun, gBatch, existing_games, games_to_insert,
                   gLooked, gTrace, pcG>>

\* A game that is in the table under AppID_<app_id>: lookup; the name is
\* updated and the delay made only if the lookup gave a name.
G_PlaceholderGame ==
    /\ NotG
    /\ pcG = "loop" /\ gIdx <= Len(gBatch)
    /\ existing_games[gBatch[gIdx]] # None
    /\ Get(existing_games[gBatch[gIdx]]) = PlaceholderName(gBatch[gIdx])
    /\ \E response \in Responses :
           LET app_id == gBatch[gIdx]
               game_name == get_game_name(app_id, response)
           IN  IF game_name # None /\ Get(game_name) # Get(existing_games[app_id])
               THEN /\ gWork' = UpdateName(gWork, app_id, Get(game_name))
                    /\ gTrace' = gTrace \o <<"lookup", "sleep">>
                    /\ gLooked' = [gLooked EXCEPT ![app_id] = "found"]
               ELSE /\ gWork' = gWork
                    /\ gTrace' = Append(gTrace, "lookup")
                    /\ gLooked' = [gLooked EXCEPT ![app_id] = "failed"]
    /\ app_ids_to_update_timestamp' = Append(app_ids_to_update_timestamp, gBatch[gIdx])
    /\ gIdx' = gIdx + 1
    /\ UNCHANGED <<gGames, gPrior, gRun, gBatch, existing_games, games_to_insert, pcG>>

\* After the loop: batch insert, batch update of last_seen, commit.
G_Commit ==
    /\ NotG
    /\ pcG = "loop" /\ gIdx > Len(gBatch)
    /\ LET table == UpdateLastSeen(InsertGames(gWork, games_to_insert),
                                   app_ids_to_update_timestamp, gRun)
       IN  gWork' = table /\ gGames' = table
    /\ pcG' = "idle"
    /\ UNCHANGED <<gPrior, gRun, gBatch, gIdx, existing_games, games_to_insert,
                   app_ids_to_update_timestamp, gLooked, gTrace>>

NextG == G_Start \/ G_NewGame \/ G_KnownGame \/ G_PlaceholderGame \/ G_Commit

\* The components added after the loaders, none of them running.
IdleX == IdleK /\ IdleD /\ IdleE /\ IdleG

\* --------------------------------------------------------- specifications
\* The two synthesizers, one run of either.
InitSynth ==
    \/ InitA /\ IdleB /\ IdleC /\ IdleN /\ IdleL /\ IdleX
    \/ InitB /\ IdleA /\ IdleC /\ IdleN /\ IdleL /\ IdleX

NextSynth == NextA \/ NextB

SpecSynth == InitSynth /\ [][NextSynth]_vars

\* The cleaning pass on any table.
InitClean == InitC /\ IdleA /\ IdleB /\ IdleN /\ IdleL /\ IdleX

SpecClean == InitClean /\ [][NextC]_vars

\* The numeric cleaner on any value.
InitNumeric == InitN /\ IdleA /\ IdleB /\ IdleC /\ IdleL /\ IdleX

SpecNumeric == InitNumeric /\ [][NextN]_vars

\* One run of one of the three loading paths.
InitLoad == InitL /\ IdleA /\ IdleB /\ IdleC /\ IdleN /\ IdleX

SpecLoad == InitLoad /\ [][NextL]_vars

\* One header through one of the normalizers, twice.
InitColumn == InitK /\ IdleA /\ IdleB /\ IdleC /\ IdleN /\ IdleL /\ IdleD /\ IdleE /\ IdleG

SpecColumn == InitColumn /\ [][NextK]_vars

\* Runs of the sink against one store, one after the other.
InitSink == InitD /\ IdleA /\ IdleB /\ IdleC /\ IdleN /\ IdleL /\ IdleK /\ IdleE /\ IdleG

SpecSink == InitSink /\ [][NextD]_vars

\* One run of one of the scripts.
InitEntry == InitE /\ IdleA /\ IdleB /\ IdleC /\ IdleN /\ IdleL /\ IdleK /\ IdleD /\ IdleG

SpecEntry == InitEntry /\ [][NextE]_vars

\* Runs of update_games_table against one games table, one after the other.
InitGames == InitG /\ IdleA /\ IdleB /\ IdleC /\ IdleN /\ IdleL /\ IdleK /\ IdleD /\ IdleE

SpecGames == InitGames /\ [][NextG]_vars

\* ------------------------------------------------------------------ claims
LoopOverA == pcA = "done"

\* The count the specification gives a record: min(max(1, floor(e)), cap), with
\* e = (hours*60/avg) * (1 + p/100); pipeline.py has neither noise nor cap.
ClaimedCount(hq, avg, p, capped, cap) ==
    LET c == Max(1, Floor(15 * hq * (100 + p), 100 * avg))
    IN  IF capped THEN Min(c, cap) ELSE c

CountAsClaimed(r) ==
    /\ aPerRow[r] >= 1
    /\ \E p \in (0 - aCfg.noise) .. aCfg.noise :
           aPerRow[r] = ClaimedCount(aDf[r].hq, aCfg.avg, p, aVariant = "main",
                                     aCfg.max_per_day)

\* C1: once the loop is over, every daily record with hours_played > 0 has
\* produced min(max(1, floor(e)), max_sessions_per_day) sessions for some noise
\* u in [-noise, +noise], and never fewer than one -- in both Mode A programs.
C1_SessionCount ==
    LoopOverA => \A r \in 1 .. Len(aDf) : aDf[r].hq > 0 => CountAsClaimed(r)

\* The same statement for simulate_sessions.main alone (it holds there).
MainSessionCount ==
    (LoopOverA /\ aVariant = "main") =>
        \A r \in 1 .. Len(aDf) : aDf[r].hq > 0 => CountAsClaimed(r)

\* hours_played = 10, average = 30, noise = 0, no clamping: exactly 20 sessions.
MainTwentySessions ==
    (LoopOverA /\ aVariant = "main" /\ aCfg.avg = 30 /\ aCfg.noise = 0
        /\ aCfg.max_per_day >= 20) =>
        \A r \in 1 .. Len(aDf) : aDf[r].hq = 40 => aPerRow[r] = 20

\* C2: every SessionRecord of either mode has duration > 0 and session_end equal
\* to session_start plus exactly duration minutes, whatever the configuration.
C2_DurationPositive ==
    /\ \A k \in 1 .. Len(session_logs) :
           /\ session_logs[k].duration > 0
           /\ session_logs[k].session_end
                  = session_logs[k].session_start + 60 * session_logs[k].duration
    /\ \A k \in 1 .. Len(bSessions) :
           /\ bSessions[k].session_duration > 0
           /\ Get(ToDatetime(Some(bSessions[k].session_end)))
                  = Get(ToDatetime(Some(bSessions[k].session_start)))
                    + 60 * bSessions[k].session_duration

\* C3: the k-th session generated in a Mode A run carries user number k, so the
\* counter has grown by one per session and no two sessions share a user_id.
C3_UserIdsFresh ==
    /\ user_counter = Len(session_logs)
    /\ \A k \in 1 .. Len(session_logs) :
           session_logs[k].user_id = [prefix |-> "user_", n |-> k]
    /\ \A j, k \in 1 .. Len(session_logs) :
           j # k => session_logs[j].user_id # session_logs[k].user_id

\* A finished run whose first two daily records both produced sessions.
C3_Witness ==
    /\ pcA = "done" /\ Len(aDf) >= 2 /\ Len(session_logs) >= 3
    /\ aPerRow[1] >= 1 /\ aPerRow[2] >= 1

CallOverB == pcB \in {"returned", "raised", "done"}

\* C4: a second execution of _simulate_user_sessions with the same arguments
\* ends the same way with the same SessionRecord sequence as the first,
\* whatever the generator state each started from.
C4_Reproducible ==
    (bCall = 2 /\ CallOverB) =>
        /\ Get(bFirst).result = bResult
        /\ Get(bFirst).sessions = bSessions

\* The second execution has returned a full table.
C4_Witness ==
    /\ bCall = 2 /\ pcB = "returned" /\ bResult = "ok"
    /\ Len(bSessions) >= 10

\* C5: for every target_session_count >= 1 and a non-empty weight mapping the
\* call makes exactly target_session_count draws of a session and returns that
\* many records without raising.
C5_ExactCount ==
    (CallOverB /\ bArgs.game_weights # <<>> /\ bArgs.target_session_count >= 1) =>
        /\ bResult = "ok"
        /\ Len(bSessions) = bArgs.target_session_count

\* C6: every record of Mode B starts at an hour of 0..23, lasts 15..600
\* minutes, names a user of the pool and a game that is a key of the weights.
C6_ModeBBounds ==
    /\ bResult # "ValueError"
    /\ \A k \in 1 .. Len(bSessions) :
           /\ bSessions[k].hour_of_day \in 0 .. 23
           /\ bSessions[k].session_start.h = bSessions[k].hour_of_day
           /\ bSessions[k].session_duration \in 15 .. 600
           /\ bSessions[k].user_id.prefix = "USER_"
           /\ bSessions[k].user_id.n \in 1 .. bArgs.num_users
           /\ \E j \in 1 .. Len(bArgs.game_weights) :
                  bArgs.game_weights[j].game = bSessions[k].game_id

\* One table holds sessions whose duration was clamped at either end of its
\* range and a session whose hour was clipped to the last hour of the day.
C6_Witness ==
    /\ \E k \in 1 .. Len(bSessions) : bSessions[k].session_duration = 15
    /\ \E k \in 1 .. Len(bSessions) : bSessions[k].session_duration = 600
    /\ \E k \in 1 .. Len(bSessions) : bSessions[k].hour_of_day = 23

\* A daily record Mode A can expand: positive hours worth at least one session.
Usable(row, avg) == row.hq > 0 /\ Floor(15 * row.hq, avg) >= 1

C7_WitnessB ==
    /\ pcB = "done" /\ bArgs.game_weights = <<>> /\ bArgs.target_session_count >= 1
    /\ bExit = 1

\* The rows of the input the cleaning pass has to keep: complete, and lasting
\* more than half a minute (exactly half a minute rounds either way).
KeptByClaim(row) ==
    /\ \A f \in DOMAIN row : row[f] # None
    /\ Get(ToDatetime(row.session_end)) - Get(ToDatetime(row.session_start)) > 30

MayBeKeptByClaim(row) ==
    /\ \A f \in DOMAIN row : row[f] # None
    /\ Get(ToDatetime(row.session_end)) - Get(ToDatetime(row.session_start)) >= 30

\* C8: for every input table clean_sessions returns a table in which every row
\* has session_duration = round((end - start) in minutes) > 0, from which every
\* input row with a non-positive recomputed duration or a missing field is
\* absent, and it reports input rows minus output rows as removed.
C8_CleanPostcondition ==
    (pcC = "done" /\ cIn # <<>>) =>
        /\ cStatus = "ok"
        /\ Len(cDf) >= Len(SelectSeq(cIn, KeptByClaim))
        /\ Len(cDf) <= Len(SelectSeq(cIn, MayBeKeptByClaim))
        /\ \A k \in 1 .. Len(cDf) :
               /\ \A f \in DOMAIN cDf[k] : cDf[k][f] # None
               /\ Get(cDf[k].session_duration) > 0
               /\ 60 * Get(cDf[k].session_duration)
                      - (Get(cDf[k].session_end) - Get(cDf[k].session_start)) \in -30 .. 30
        /\ cRemoved = Some(Len(cIn) - Len(cDf))

\* The same postcondition for the tables whose time cells are all present.
CleanPostconditionComplete ==
    (pcC = "done" /\ cIn # <<>>
        /\ \A k \in 1 .. Len(cIn) :
               cIn[k].session_start # None /\ cIn[k].session_end # None) =>
        /\ cStatus = "ok"
        /\ Len(cDf) >= Len(SelectSeq(cIn, KeptByClaim))
        /\ Len(cDf) <= Len(SelectSeq(cIn, MayBeKeptByClaim))
        /\ \A k \in 1 .. Len(cDf) :
               /\ \A f \in DOMAIN cDf[k] : cDf[k][f] # None
               /\ Get(cDf[k].session_duration) > 0
               /\ 60 * Get(cDf[k].session_duration)
                      - (Get(cDf[k].session_end) - Get(cDf[k].session_start)) \in -30 .. 30
        /\ cRemoved = Some(Len(cIn) - Len(cDf))

\* What the claim gives for a str: the value of the text left once every quote
\* and comma is gone, parsed as an int without a decimal point and as a float
\* with one; the missing sentinel if that text is no number.
ClaimedClean(v) ==
    IF v.kind \in {"int", "float", "nan"} THEN v
    ELSE IF v.kind # "str" THEN PdNA
    ELSE LET stripped == SelectSeq(v.s, LAMBDA c : c \notin {Quote, ","})
             parsed == IF \E i \in 1 .. Len(stripped) : stripped[i] = "."
                       THEN PyFloatOfStr(stripped) ELSE PyIntOfStr(stripped)
         IN  IF parsed = None THEN PdNA ELSE Get(parsed)

\* C9: both numeric cleaners return a number unchanged, the parsed value of the
\* stripped text for a str ("1,234" -> 1234, "12.50" -> 12.5), and the missing
\* sentinel for a str that does not parse and for any other value.
C9_NumericCleaner ==
    /\ nUtils # None => Get(nUtils) = ClaimedClean(nValue)
    /\ nSimple # None => Get(nSimple) = ClaimedClean(nValue)
    /\ (nUtils # None /\ nValue = StrVal(<<"1", ",", "2", "3", "4">>)) =>
           Get(nUtils) = IntVal(1234)
    /\ (nUtils # None /\ nValue = StrVal(<<"1", "2", ".", "5", "0">>)) =>
           Get(nUtils) = FloatVal(125, 10)
    /\ (nUtils # None /\ nValue = StrVal(<<"a", "b", "c">>)) => Get(nUtils) = PdNA
    /\ (nUtils # None /\ nValue.kind = "str" /\ Get(nUtils) # PdNA) =>
           Get(nUtils).kind = (IF \E i \in 1 .. Len(nValue.s) : nValue.s[i] = "."
                               THEN "float" ELSE "int")

\* Both cleaners have parsed a quoted text with a thousands separator.
C9_Witness ==
    /\ pcN = "done"
    /\ nValue = StrVal(<<Quote, "1", ",", "2", "3", "4", ".", "5", Quote>>)
    /\ Get(nUtils) = FloatVal(12345, 10)
    /\ Get(nSimple) = FloatVal(12345, 10)

\* Whether a cell as read can be parsed as a number.
Parses(v) == ClaimedClean(v).kind \in {"int", "float"}

\* What the claim asks of a table: no row of it stems from a row as read whose
\* peak_players cell (or, where the column is kept numeric, hours_played cell)
\* does not parse.
OnlyParsedRows(table, withHours) ==
    \A k \in 1 .. Len(table) :
        /\ Parses(lRaw[table[k].src].peak)
        /\ withHours => Parses(lRaw[table[k].src].hours)

\* C10: in every loading path a peak_players or hours_played cell that cannot
\* be parsed as a number never enters the table (nor the per-game mean) as 0 or
\* as any other number: its row is dropped.
C10_MissingIsAbsent ==
    (pcL = "done" /\ lTable # None) => OnlyParsedRows(Get(lTable), lPath # "weights")

\* The same statement for load_daily_data and simple_etl.main (it holds there).
DailyMissingIsAbsent ==
    (pcL = "done" /\ lTable # None /\ lPath # "weights") =>
        /\ OnlyParsedRows(Get(lTable), TRUE)
        /\ \A k \in 1 .. Len(lRaw) :
               (Parses(lRaw[k].peak) /\ Parses(lRaw[k].hours)) =>
                   \E j \in 1 .. Len(Get(lTable)) : Get(lTable)[j].src = k

\* The characters the claim keeps out of a normalized header.
NoQuoteSpaceUpper(s) ==
    \A i \in 1 .. Len(s) :
        /\ s[i] # Quote
        /\ s[i] \notin Whitespace
        /\ ~(\E j \in 1 .. Len(UpperLetters) : UpperLetters[j] = s[i])

\* C11: clean_column_name and clean_column are idempotent: normalizing what
\* they returned gives it back unchanged; and what they return holds no double
\* quote, no whitespace and no upper-case letter.
C11_Idempotent ==
    (kFn \in {"utils", "simple"}) =>
        /\ kOnce # None => NoQuoteSpaceUpper(Get(kOnce))
        /\ kTwice # None => Get(kTwice) = Get(kOnce)

\* A header with quotes left and right of a blank has gone through twice.
C11_Witness ==
    /\ kFn = "utils" /\ pcK = "done"
    /\ kName = <<" ", Quote, "N", Quote, "\t", Quote>>
    /\ Get(kTwice) = <<"n">>

\* The canonical form of the specification: quotes stripped, ends trimmed,
\* runs of whitespace and hyphens collapsed to one underscore, lower case.
CanonicalForm(s) ==
    StrLower(ReSubRuns(StrStrip(StrRemove(s, Quote)), Whitespace \cup {"-"}))

\* C12: the normalizer returns the canonical form of the header, so that
\* " Peak-No. Of Players " becomes peak_no._of_players.
C12_CanonicalForm ==
    (kFn = "utils" /\ kOnce # None) => Get(kOnce) = CanonicalForm(kName)

\* What holds of clean_column_name: the canonical form of headers without a
\* hyphen, and hyphens are kept as they are.
CanonicalWithoutHyphen ==
    (kFn \in {"utils", "simple"} /\ kOnce # None) =>
        /\ (\A i \in 1 .. Len(kName) : kName[i] # "-") => Get(kOnce) = CanonicalForm(kName)
        /\ (kName = PeakHeader) =>
               Get(kOnce) = <<"p", "e", "a", "k", "-", "n", "o", ".", "_", "o", "f", "_",
                              "p", "l", "a", "y", "e", "r", "s">>

\* A matched file that passes every per-file check of the daily loaders.
PassesChecks(f) ==
    f.name_ok /\ f.date # None /\ f.content = "rows" /\ f.has_cols

DailyLoad == lPath \in {"daily", "simple"}

\* Every row of the aggregate table is a row of a file that passed the checks
\* and carries the date of that file.
RowsFromPassingFiles ==
    (DailyLoad /\ lTable # None) =>
        \A k \in 1 .. Len(Get(lTable)) :
            \E i \in 1 .. Len(lFiles) :
                /\ PassesChecks(lFiles[i])
                /\ Get(lTable)[k].date = Get(lFiles[i].date)
                /\ \E j \in 1 .. Len(lFiles[i].rows) :
                       lFiles[i].rows[j].id = Get(lTable)[k].id

\* C13: a file with a non-matching name, an invalid date, no content or a
\* missing required column adds no row to the aggregate table and does not
\* abort the load; every row of the table comes from a file that passed all
\* the checks and carries its date.
C13_PerFileFiltering ==
    /\ RowsFromPassingFiles
    /\ DailyLoad => lExit # "EmptyDataError"

\* What holds of the code: the rows come from passing files only, and the load
\* is aborted by a file of the list exactly when a file without any byte is
\* reached whose name and date are fine.
PerFileFilteringButEmpty ==
    /\ RowsFromPassingFiles
    /\ (DailyLoad /\ lExit = "EmptyDataError") =>
           /\ lFiles[lIdx].content = "zero_bytes"
           /\ lTable = None
    /\ (DailyLoad /\ pcL = "done" /\ lExit \in {"ok", "ValueError", "returned_early"}
            /\ lFiles # <<>>) =>
           \A i \in 1 .. Len(lFiles) : ~FileAborts(lPath, lFiles[i])

\* The rows of the matched files that survive all filtering: those of passing
\* files whose two numeric cells parse.
RECURSIVE SurvivingRows(_, _)
SurvivingRows(files, i) ==
    IF i = 0 THEN 0
    ELSE SurvivingRows(files, i - 1)
         + (IF PassesChecks(files[i])
            THEN Len(SelectSeq(files[i].rows,
                     LAMBDA r : /\ ~IsMissing(clean_numeric_string(r.peak))
                                /\ ~IsMissing(clean_numeric_string(r.hours))))
            ELSE 0)

\* C14: load_daily_data raises when no file matches the glob and when no row
\* survives the per-file and per-row filtering; it never returns an empty
\* aggregate table and raises in no other case.
C14_FatalConditions ==
    (lPath = "daily" /\ pcL = "done") =>
        /\ lFiles = <<>> => lExit = "FileNotFoundError"
        /\ SurvivingRows(lFiles, Len(lFiles)) = 0 => lExit # "ok"
        /\ lExit = "ok" => Get(lTable) # <<>>
        /\ lExit # "ok" => (lFiles = <<>> \/ SurvivingRows(lFiles, Len(lFiles)) = 0)

\* What holds of load_daily_data: it raises FileNotFoundError exactly when no
\* file matches, ValueError when no file passes the per-file checks, and what
\* it returns has exactly the surviving rows, which may be none.
FatalOnlyWithoutFrames ==
    (lPath = "daily" /\ pcL = "done") =>
        /\ lFiles = <<>> <=> lExit = "FileNotFoundError"
        /\ lExit = "ValueError" =>
               \A i \in 1 .. Len(lFiles) : ~PassesChecks(lFiles[i])
        /\ lExit = "ok" => Len(Get(lTable)) = SurvivingRows(lFiles, Len(lFiles))
        /\ lExit \in {"ok", "FileNotFoundError", "ValueError", "EmptyDataError"}

WeightsReturned == lPath = "weights" /\ pcL = "done" /\ lWeights # None

\* C15: the mapping _calculate_game_weights returns covers every game name of
\* its input; the weights are the dense ranks of the games' mean peak_players:
\* equal means get equal weights, a higher mean a higher weight, and the
\* weights in use are 1 .. n without a gap; no input rows, no entries.
C15_DenseRankWeights ==
    WeightsReturned =>
        LET w == Get(lWeights)
            names == { lRaw[k].name : k \in 1 .. Len(lRaw) }
        IN  /\ DOMAIN w = names
            /\ \A g \in names : \A h \in names :
                   /\ MeanEqual(lRows, g, h) => w[g] = w[h]
                   /\ MeanLess(lRows, g, h) => w[g] < w[h]
            /\ { w[g] : g \in names } = 1 .. Cardinality({ w[g] : g \in names })
            /\ lRaw = <<>> => DOMAIN w = {}

\* Two games share the lowest mean and a third lies above them.
C15_Witness ==
    /\ WeightsReturned
    /\ DOMAIN Get(lWeights) = {"A", "B", "C"}
    /\ Get(lWeights)["A"] = 1 /\ Get(lWeights)["B"] = 1 /\ Get(lWeights)["C"] = 2

\* The weight path got a file with a header and no rows.
C15_WitnessEmpty ==
    /\ WeightsReturned /\ lFrames > 0 /\ lRaw = <<>>
    /\ DOMAIN Get(lWeights) = {}

\* The place of a call in the trace of a run (0 if it was not made).
TracePos(call) ==
    IF \E i \in 1 .. Len(dTrace) : dTrace[i] = call
    THEN CHOOSE i \in 1 .. Len(dTrace) : dTrace[i] = call
    ELSE 0

Before(c1, c2) == TracePos(c2) # 0 => (TracePos(c1) # 0 /\ TracePos(c1) < TracePos(c2))

\* C16: after successful runs against one store the session_logs table holds
\* exactly the rows of the most recent run, none of an earlier one, with
\* session_id values that are unique and increase in insertion order; within
\* a run drop comes before create, create before the bulk insert, and the
\* bulk insert before the one commit.
C16_ReplaceOnRun ==
    /\ (dAllOk /\ pcD = "idle" /\ dRun >= 1) =>
           /\ dDurable # None
           /\ Len(Get(dDurable).rows) = Len(dBatch)
           /\ \A k \in 1 .. Len(dBatch) :
                  /\ Get(dDurable).rows[k].run = dRun
                  /\ Get(dDurable).rows[k].k = dBatch[k].k
           /\ \A j \in 1 .. Len(dBatch) : \A k \in 1 .. Len(dBatch) :
                  j < k => Get(dDurable).rows[j].session_id < Get(dDurable).rows[k].session_id
    /\ Before("drop", "create") /\ Before("create", "to_sql") /\ Before("to_sql", "commit")
    /\ Cardinality({ i \in 1 .. Len(dTrace) : dTrace[i] = "commit" }) <= 1

\* A third successful run has replaced a longer table by a shorter one.
C16_Witness ==
    /\ dAllOk /\ pcD = "idle" /\ dRun = 3
    /\ Len(dBatch) = 2 /\ dPrior # None /\ Len(Get(dPrior).rows) = 2
    /\ Get(dPrior).rows[1].run = 2
    /\ dTrace = <<"connect", "drop", "create", "to_sql", "commit", "close">>

\* C17: when the bulk insert fails the batch is rolled back, and after the
\* failed run the store holds the session_logs contents of the run before or
\* all rows of the new run: never a part of them, never no table and never an
\* emptied table.
C17_FailureAtomicity ==
    (pcD = "idle" /\ dRun >= 1 /\ dExit \in {"Exception", "printed"}) =>
        \/ dDurable = dPrior
        \/ /\ dDurable # None
           /\ Len(Get(dDurable).rows) = Len(dBatch)
           /\ \A k \in 1 .. Len(dBatch) : Get(dDurable).rows[k].run = dRun

\* What holds after a failed run: no row of the batch is in the table, and
\* the table is there and empty, the rows of the run before being lost.
FailedRunLeavesEmptyTable ==
    (pcD = "idle" /\ dRun >= 1 /\ dExit \in {"Exception", "printed"}) =>
        dDurable = Some(EmptyTable)

\* C18: every script ends with a non-zero status when a fatal error occurred
\* (configuration, input files, usable rows, sessions, database insert) and
\* with status zero only after a run without one.
C18_ExitStatus ==
    eStatus # -1 => (eStatus = 0 <=> eFatal = {})

\* What holds: pipeline.py and generate_sessions.py end with status 1 on every
\* fatal error, the other three scripts on a configuration error only (and
\* simple_etl.py when the output file cannot be written).
ExitStatusOfScripts ==
    eStatus # -1 =>
        /\ eEntry \in {"run_etl", "generate_sessions"} => (eStatus = 0 <=> eFatal = {})
        /\ eEntry \in {"simulate_sessions", "fetch_steam_data"} =>
               (eStatus # 0 <=> "config" \in eFatal)
        /\ eEntry = "simple_etl" => (eStatus # 0 <=> "sink" \in eFatal)
        /\ eFatal = {} => eStatus = 0

RunOverG == pcG = "idle" /\ gRun >= 1

InBatch(a) == \E i \in 1 .. Len(gBatch) : gBatch[i] = a

\* C19: a game of the batch that was not in the games table and whose lookup
\* gave no name is inserted as AppID_<app_id>; the run goes to its commit
\* whatever the lookups did; a game stored as AppID_<app_id> gets the looked
\* up name in a later run, its first_seen_timestamp staying as it was.
C19_LookupFallback ==
    /\ RunOverG =>
           \A a \in AppIds :
               /\ (InBatch(a) /\ gPrior[a] = None) =>
                      /\ gGames[a] # None
                      /\ Get(gGames[a]).first_seen = gRun
                      /\ gLooked[a] = "failed" => Get(gGames[a]).name = PlaceholderName(a)
                      /\ gLooked[a] = "found" => Get(gGames[a]).name = RealName(a)
               /\ (InBatch(a) /\ gPrior[a] # None) =>
                      /\ gGames[a] # None
                      /\ Get(gGames[a]).first_seen = Get(gPrior[a]).first_seen
                      /\ Get(gGames[a]).last_seen = gRun
                      /\ (Get(gPrior[a]).name = PlaceholderName(a) /\ gLooked[a] = "found") =>
                             Get(gGames[a]).name = RealName(a)
                      /\ gLooked[a] # "found" => Get(gGames[a]).name = Get(gPrior[a]).name
               /\ ~InBatch(a) => gGames[a] = gPrior[a]
    /\ (pcG = "loop" /\ gIdx <= Len(gBatch)) =>
           ENABLED (G_NewGame \/ G_KnownGame \/ G_PlaceholderGame)

\* A second run has given a game stored as AppID_<app_id> its name, while the
\* lookup for a new game of the same run failed.
C19_Witness ==
    /\ RunOverG /\ gRun = 2
    /\ \E a \in AppIds :
           /\ gPrior[a] # None /\ Get(gPrior[a]).name = PlaceholderName(a)
           /\ Get(gGames[a]).name = RealName(a)
           /\ Get(gGames[a]).first_seen = 1 /\ Get(gGames[a]).last_seen = 2
    /\ \E b \in AppIds :
           /\ gPrior[b] = None /\ gLooked[b] = "failed"
           /\ Get(gGames[b]).name = PlaceholderName(b)

\* C20: within a run of update_games_table every lookup is followed by the
\* 1.5 second delay before the next lookup is made, whether it gave a name or
\* not, for a new game and for a game stored as AppID_<app_id> alike.
C20_RateLimited ==
    \A i \in 1 .. Len(gTrace) :
        (gTrace[i] = "lookup" /\ i < Len(gTrace)) => gTrace[i + 1] = "sleep"

\* What holds: the delay follows every lookup for a new game and every lookup
\* that led to a change of name; the steps of a run come one after the other.
DelayAfterNewAndRenamed ==
    /\ \A i \in 1 .. Len(gTrace) :
           gTrace[i] = "sleep" => (i > 1 /\ gTrace[i - 1] = "lookup")
    /\ Cardinality({ i \in 1 .. Len(gTrace) : gTrace[i] = "sleep" })
           = Cardinality({ a \in AppIds : gLooked[a] = "found" })
             + Cardinality({ a \in AppIds : gLooked[a] = "failed" /\ gPrior[a] = None })
====
